---------------------------- MODULE Spec2Model ----------------------------
(***************************************************************************)
(* A model of the registry core of hyli-registry (server/src/registry.rs    *)
(* with the storage backends of server/src/storage/).                       *)
(*                                                                         *)
(* The state is the backend's object namespace (storage), the in-memory    *)
(* IndexFile (index), the BinaryCache (cache), and one call record per     *)
(* caller task (calls).  Every await point of an operation (a backend      *)
(* call, the acquisition of the index lock or of the cache lock) ends one  *)
(* step of the model, so the steps of concurrent calls interleave exactly  *)
(* where the tasks of the async runtime can.                               *)
(***************************************************************************)
EXTENDS Integers, Sequences, FiniteSets, TLC

VARIABLES
    phase,      \* "down": no service runs; "loaded", "rebuilt": RegistryService::new
                \* returned Ok, having parsed index.json or rebuilt the index
                \* (index_rebuilds is 1); "failed": it returned Err
    storage,    \* the backend: object key -> object content (present keys only)
    index,      \* IndexFile.contracts: contract -> (program_id -> ProgramEntry)
    cache,      \* BinaryCache.per_contract: contract -> sequence of CacheEntry, front first
    calls,      \* caller task -> the call it is running (position and locals)
    clock,      \* number of operations started so far
    fresh       \* history: the uploads that returned Ok with no other mutation of
                \* their contract under way, until the next mutation of it starts

vars == <<phase, storage, index, cache, calls, clock, fresh>>

-----------------------------------------------------------------------------
(* Bounds of the model *)

\* operations started in one run of the concurrent specification
MaxOps == 3
\* operations started in one run of the restart specification
MaxBootOps == 3

\* the request handlers that run at once on the one RegistryService
Tasks == {"t1", "t2"}

-----------------------------------------------------------------------------
(* Data model *)

ProgramMetadata(toolchain) ==
    [toolchain |-> toolchain, commit |-> "abc123", zkvm |-> "sp1"]

INDEX_FILE_NAME == "index.json"

\* str::ends_with
EndsWith(string, suffix) ==
    /\ Len(string) >= Len(suffix)
    /\ SubSeq(string, Len(string) - Len(suffix) + 1, Len(string)) = suffix

\* the part of an object key before its last "/": the directory the local
\* backend keeps the object in
DirOf(key) ==
    LET slashes == { i \in 1..Len(key) : SubSeq(key, i, i) = "/" }
    IN  IF slashes = {}
        THEN ""
        ELSE SubSeq(key, 1, (CHOOSE i \in slashes : \A j \in slashes : j <= i) - 1)

\* a key built from the program id itself, not from its digest
program_id_digest_Raw(program_id) == program_id

\* hex(SHA-256(program_id)): a string of hexadecimal digits of one fixed
\* length (four here, sixty-four in the code) per program id; different ids
\* are taken to give different digests, none of them the id itself
program_id_digest(program_id) ==
    CASE program_id = "p1" -> "d1a7"
      [] program_id = "p2" -> "d2b8"
      [] program_id = "p3" -> "d3c9"
      [] OTHER -> "d000"

\* format!("{}/{}.elf", contract, digest)
binary_object_path(contract, program_id) ==
    contract \o "/" \o program_id_digest(program_id) \o ".elf"

\* format!("{}/{}.json", contract, digest)
metadata_object_path(contract, program_id) ==
    contract \o "/" \o program_id_digest(program_id) \o ".json"

ProgramEntry(program_id, contract, object_path, metadata_path, size_bytes, uploaded_at, metadata) ==
    [program_id |-> program_id, contract |-> contract,
     object_path |-> object_path, metadata_path |-> metadata_path,
     size_bytes |-> size_bytes, uploaded_at |-> uploaded_at,
     metadata |-> metadata]

\* ProgramInfo::from_entry: the projection without the backend paths
from_entry(entry) ==
    [program_id |-> entry.program_id, size_bytes |-> entry.size_bytes,
     uploaded_at |-> entry.uploaded_at, metadata |-> entry.metadata]

EmptyMap == <<>>

\* HashMap::insert
MapInsert(m, k, v) == [x \in DOMAIN m \cup {k} |-> IF x = k THEN v ELSE m[x]]

\* HashMap::remove
MapRemove(m, k) == [x \in DOMAIN m \ {k} |-> m[x]]

\* index.contracts.get(contract).and_then(|ce| ce.programs.get(program_id))
HasEntry(idx, contract, program_id) ==
    contract \in DOMAIN idx /\ program_id \in DOMAIN idx[contract]

-----------------------------------------------------------------------------
(* Object contents.  An object is a byte string; the model keeps what the   *)
(* bytes are: a raw payload, the JSON text of a ProgramEntry, the JSON text *)
(* of an IndexFile, or text that is no JSON at all.                        *)

RawBytes(bytes) == [kind |-> "raw", bytes |-> bytes, doc |-> <<>>]

Garbage == [kind |-> "garbage", bytes |-> <<>>, doc |-> <<>>]

\* serde_json::to_vec(&entry)
EntryToVec(entry) == [kind |-> "entry", bytes |-> <<>>, doc |-> entry]

\* serde_json::to_vec(&*index)
IndexToVec(idx) == [kind |-> "index", bytes |-> <<>>, doc |-> idx]

\* serde_json::from_slice::<ProgramEntry> is Ok
EntryParses(content) == content.kind = "entry"

EntryFromSlice(content) == content.doc

\* serde_json::from_slice::<IndexFile> is Ok
IndexParses(content) == content.kind = "index"

IndexFromSlice(content) == content.doc

-----------------------------------------------------------------------------
(* StorageBackend *)

\* read_object is Ok(Some(_))
ObjectExists(st, key) == key \in DOMAIN st

\* a write that creates an object and leaves one that is there as it is
write_object_CreateOnly(st, key, content) ==
    IF key \in DOMAIN st THEN st ELSE [k \in DOMAIN st \cup {key} |-> IF k = key THEN content ELSE st[k]]

\* write_object: creates or overwrites
write_object(st, key, content) == MapInsert(st, key, content)

\* delete_object: removing an object that does not exist is Ok(())
delete_object(st, key) == MapRemove(st, key)

\* list_objects(None)
list_objects(st) == DOMAIN st

-----------------------------------------------------------------------------
(* BinaryCache: per contract a VecDeque of CacheEntry, most recent first *)

CacheCapacity == 2

CacheEntry(program_id, bytes) == [program_id |-> program_id, bytes |-> bytes]

\* entries.retain(|entry| entry.program_id != program_id)
Retain(entries, program_id) ==
    SelectSeq(entries, LAMBDA entry : entry.program_id # program_id)

\* entries.iter().position(|entry| entry.program_id == program_id); 0 is None
Position(entries, program_id) ==
    IF \E i \in 1..Len(entries) : entries[i].program_id = program_id
    THEN CHOOSE i \in 1..Len(entries) :
             /\ entries[i].program_id = program_id
             /\ \A j \in 1..(i - 1) : entries[j].program_id # program_id
    ELSE 0

\* VecDeque::remove(position)
RemoveAt(entries, position) ==
    SubSeq(entries, 1, position - 1) \o SubSeq(entries, position + 1, Len(entries))

\* an eviction that pops the most recently used entries
Truncate_PopFront(entries) ==
    IF Len(entries) > CacheCapacity
    THEN SubSeq(entries, Len(entries) - CacheCapacity + 1, Len(entries))
    ELSE entries

\* while entries.len() > 2 { entries.pop_back(); }
Truncate(entries) ==
    IF Len(entries) > CacheCapacity THEN SubSeq(entries, 1, CacheCapacity) ELSE entries

\* a cache that never answers
CacheHit_Never(per_contract, contract, program_id) == FALSE

\* get_and_touch returns Some(_)
CacheHit(per_contract, contract, program_id) ==
    /\ contract \in DOMAIN per_contract
    /\ Position(per_contract[contract], program_id) # 0

\* the bytes get_and_touch returns on a hit
CachedBytes(per_contract, contract, program_id) ==
    per_contract[contract][Position(per_contract[contract], program_id)].bytes

\* a lookup that leaves the entry where it is
get_and_touch_NoTouch(per_contract, contract, program_id) == per_contract

\* BinaryCache::get_and_touch: the cache it leaves
get_and_touch(per_contract, contract, program_id) ==
    IF CacheHit(per_contract, contract, program_id)
    THEN LET entries == per_contract[contract]
             position == Position(entries, program_id)
         IN  [per_contract EXCEPT
                 ![contract] = <<entries[position]>> \o RemoveAt(entries, position)]
    ELSE per_contract

\* an insert into a cache bounded over all contracts jointly: a contract that
\* fills the bound evicts the entries of the others
insert_Joint(per_contract, contract, program_id, bytes) ==
    LET entries == IF contract \in DOMAIN per_contract
                   THEN per_contract[contract] ELSE <<>>
        kept == Truncate(<<CacheEntry(program_id, bytes)>> \o Retain(entries, program_id))
    IN  IF Len(kept) = CacheCapacity
        THEN [x \in {contract} |-> kept]
        ELSE MapInsert(per_contract, contract, kept)

\* an insert that does not drop the entry the program already has
insert_NoDedup(per_contract, contract, program_id, bytes) ==
    LET entries == IF contract \in DOMAIN per_contract
                   THEN per_contract[contract] ELSE <<>>
    IN  MapInsert(per_contract, contract,
            Truncate(<<CacheEntry(program_id, bytes)>> \o entries))

\* BinaryCache::insert
insert(per_contract, contract, program_id, bytes) ==
    LET entries == IF contract \in DOMAIN per_contract
                   THEN per_contract[contract] ELSE <<>>
    IN  MapInsert(per_contract, contract,
            Truncate(<<CacheEntry(program_id, bytes)>> \o Retain(entries, program_id)))

\* a removal that leaves the emptied list of the contract in the cache
remove_program_KeepsEmpty(per_contract, contract, program_id) ==
    IF contract \in DOMAIN per_contract
    THEN [per_contract EXCEPT ![contract] = Retain(per_contract[contract], program_id)]
    ELSE per_contract

\* BinaryCache::remove_program
remove_program(per_contract, contract, program_id) ==
    IF contract \in DOMAIN per_contract
    THEN LET entries == Retain(per_contract[contract], program_id)
         IN  IF entries = <<>>
             THEN MapRemove(per_contract, contract)
             ELSE [per_contract EXCEPT ![contract] = entries]
    ELSE per_contract

\* BinaryCache::remove_contract
remove_contract(per_contract, contract) == MapRemove(per_contract, contract)

-----------------------------------------------------------------------------
(* load_or_rebuild_index *)
\* a rebuild that files each entry under the directory of its object's key
\* instead of under the contract embedded in it
RebuildEntries_ByKey(st) ==
    { [EntryFromSlice(st[object]) EXCEPT !.contract = DirOf(object)] :
        object \in { k \in list_objects(st) :
                        /\ k # INDEX_FILE_NAME
                        /\ EndsWith(k, ".json")
                        /\ EntryParses(st[k]) } }

\* the listed objects the rebuild reads and parses: every key ending in
\* ".json" other than index.json whose content parses as a ProgramEntry
RebuildEntries(st) ==
    { EntryFromSlice(st[object]) :
        object \in { k \in list_objects(st) :
                        /\ k # INDEX_FILE_NAME
                        /\ EndsWith(k, ".json")
                        /\ EntryParses(st[k]) } }

\* The indexes a rebuild can return.  Each parsed entry is inserted under
\* (entry.contract, entry.program_id); of several objects embedding the same
\* pair the one listed last stays, and the listing order is the backend's.
RebuildIndexes(st) ==
    LET parsed == RebuildEntries(st)
        pairs == { <<e.contract, e.program_id>> : e \in parsed }
        picks == { f \in [pairs -> parsed] :
                     \A pr \in pairs :
                        f[pr].contract = pr[1] /\ f[pr].program_id = pr[2] }
    IN  { [c \in { pr[1] : pr \in pairs } |->
              [p \in { pr[2] : pr \in { q \in pairs : q[1] = c } } |-> f[<<c, p>>]]] :
          f \in picks }

-----------------------------------------------------------------------------
(* Calls.  A caller task runs one operation at a time; its record holds the *)
(* operation, the await point it stands at and the locals of the function.  *)

NoEntry == ProgramEntry("", "", INDEX_FILE_NAME, INDEX_FILE_NAME, 0, 0, ProgramMetadata(""))

Pending == [status |-> "pending", found |-> FALSE, bytes |-> <<>>, entry |-> NoEntry]

\* Ok(entry) of upload
OkEntry(entry) == [status |-> "ok", found |-> TRUE, bytes |-> <<>>, entry |-> entry]

\* Ok(Some(bytes)) of download
OkSome(bytes) == [status |-> "ok", found |-> TRUE, bytes |-> bytes, entry |-> NoEntry]

\* Ok(None) of download
OkNone == [status |-> "ok", found |-> FALSE, bytes |-> <<>>, entry |-> NoEntry]

\* Ok(true), Ok(false) of delete_program and delete_contract
OkBool(b) == [status |-> "ok", found |-> b, bytes |-> <<>>, entry |-> NoEntry]

NoExpect == [has |-> FALSE, bytes |-> <<>>, over |-> FALSE]

Idle ==
    [op |-> "none", pc |-> "idle", contract |-> "", program_id |-> "",
     bytes |-> <<>>, metadata |-> ProgramMetadata(""), entry |-> NoEntry,
     entries |-> {}, todo |-> {}, index_bytes |-> Garbage, result |-> Pending,
     alone |-> TRUE, over |-> FALSE, expect |-> NoExpect, at |-> "",
     lock |-> "none", cache_lock |-> FALSE]

Mutations == {"upload", "delete_program", "delete_contract"}

\* a service is up
Ready == phase \in {"loaded", "rebuilt"}

InFlight(call) == call.pc \notin {"idle", "done", "crashed"}

\* a task can start an operation: the service is up, the task runs nothing,
\* and the run has operations left
CanStart(t, budget) ==
    /\ Ready
    /\ ~InFlight(calls[t])
    /\ clock < budget

\* the call returns: its locals are dropped, its arguments and result stay,
\* and so does, as history, the set of entries a delete_contract took
Return(call, result) ==
    [call EXCEPT !.pc = "done", !.result = result, !.entry = NoEntry,
                 !.todo = {}, !.index_bytes = Garbage,
                 !.bytes = IF call.op = "upload" THEN call.bytes ELSE <<>>]

\* History kept when task t starts a mutation of contract: the calls of the
\* other tasks that it overlaps are marked, and so is the new call.
StartMutation(t, call, contract) ==
    /\ calls' = [u \in DOMAIN calls |->
                   IF u = t
                   THEN [call EXCEPT !.alone =
                            \A v \in DOMAIN calls \ {t} :
                               ~(/\ InFlight(calls[v])
                                 /\ calls[v].op \in Mutations
                                 /\ calls[v].contract = contract)]
                   ELSE IF InFlight(calls[u]) /\ calls[u].contract = contract
                   THEN [calls[u] EXCEPT !.alone = FALSE, !.expect = NoExpect]
                   ELSE calls[u]]
    /\ fresh' = { f \in fresh : f.contract # contract }
    /\ clock' = clock + 1

\* History read when a download starts: the bytes of the undisturbed upload
\* of the pair, if there is one
Expected(contract, program_id) ==
    LET known == { f \in fresh : f.contract = contract /\ f.program_id = program_id }
    IN  IF known = {}
        THEN NoExpect
        ELSE [has |-> TRUE, bytes |-> (CHOOSE f \in known : TRUE).bytes,
              over |-> (CHOOSE f \in known : TRUE).over]

\* History: the upload replaces an entry of other metadata whose binary
\* object holds other bytes
Overwrites(contract, program_id, bytes, metadata) ==
    /\ HasEntry(index, contract, program_id)
    /\ index[contract][program_id].metadata # metadata
    /\ ObjectExists(storage, binary_object_path(contract, program_id))
    /\ storage[binary_object_path(contract, program_id)] # RawBytes(bytes)

\* Utc::now().to_rfc3339(): the time of this run, later than the time 0 of
\* the entries an earlier run left
Now == 1

\* the timestamp an upload takes: runs in which the order of the uploads
\* matters read a clock that advances with every operation started
Timestamp(U) == IF U.ticking THEN clock + 1 ELSE Now

-----------------------------------------------------------------------------
(* RegistryService::upload *)

\* the call begins: paths, size and timestamp are computed before any await
UploadStart(t, U) ==
    /\ CanStart(t, U.budget)
    /\ \E contract \in U.contracts, program_id \in U.programs,
          bytes \in U.payloads, toolchain \in U.toolchains :
          StartMutation(t,
              [Idle EXCEPT !.op = "upload", !.pc = "store_elf",
                           !.contract = contract, !.program_id = program_id,
                           !.bytes = bytes, !.metadata = ProgramMetadata(toolchain),
                           !.over = Overwrites(contract, program_id, bytes,
                                               ProgramMetadata(toolchain)),
                           !.entry = ProgramEntry(program_id, contract,
                                         binary_object_path(contract, program_id),
                                         metadata_object_path(contract, program_id),
                                         Len(bytes), Timestamp(U),
                                         ProgramMetadata(toolchain))],
              contract)
    /\ UNCHANGED <<phase, storage, index, cache>>

\* an upload that puts its entry into the index while it writes the binary
UploadStoreElf_IndexFirst(t) ==
    /\ calls[t].op = "upload" /\ calls[t].pc = "store_elf"
    /\ storage' = write_object(storage, calls[t].entry.object_path,
                               RawBytes(calls[t].bytes))
    /\ index' = [c \in DOMAIN index \cup {calls[t].contract} |->
                   IF c = calls[t].contract
                   THEN [p \in (IF c \in DOMAIN index THEN DOMAIN index[c] ELSE {})
                                   \cup {calls[t].program_id} |->
                            IF p = calls[t].program_id
                            THEN calls[t].entry ELSE index[c][p]]
                   ELSE index[c]]
    /\ calls' = [calls EXCEPT ![t].pc = "store_metadata"]
    /\ UNCHANGED <<phase, cache, clock, fresh>>

\* self.storage.write_object(&object_path, &bytes)
UploadStoreElf(t) ==
    /\ calls[t].op = "upload" /\ calls[t].pc = "store_elf"
    /\ storage' = write_object(storage, calls[t].entry.object_path,
                               RawBytes(calls[t].bytes))
    /\ calls' = [calls EXCEPT ![t].pc = "store_metadata"]
    /\ UNCHANGED <<phase, index, cache, clock, fresh>>
\* an upload that does not write its metadata object
UploadStoreMetadata_Skips(t) ==
    /\ calls[t].op = "upload" /\ calls[t].pc = "store_metadata"
    /\ calls' = [calls EXCEPT ![t].pc = "update_index"]
    /\ UNCHANGED <<phase, storage, index, cache, clock, fresh>>

\* self.storage.write_object(&metadata_path, &metadata_bytes)
UploadStoreMetadata(t) ==
    /\ calls[t].op = "upload" /\ calls[t].pc = "store_metadata"
    /\ storage' = write_object(storage, calls[t].entry.metadata_path,
                               EntryToVec(calls[t].entry))
    /\ calls' = [calls EXCEPT ![t].pc = "update_index"]
    /\ UNCHANGED <<phase, index, cache, clock, fresh>>

\* an insert that leaves an entry already there: entry(..).or_insert(..)
IndexInsert_KeepFirst(idx, contract, program_id, entry) ==
    IF HasEntry(idx, contract, program_id)
    THEN idx
    ELSE MapInsert(idx, contract,
             MapInsert(IF contract \in DOMAIN idx THEN idx[contract] ELSE EmptyMap,
                       program_id, entry))

\* an insert that keeps the metadata of the entry it replaces
IndexInsert_Merge(idx, contract, program_id, entry) ==
    MapInsert(idx, contract,
        MapInsert(IF contract \in DOMAIN idx THEN idx[contract] ELSE EmptyMap,
                  program_id,
                  IF HasEntry(idx, contract, program_id)
                  THEN [entry EXCEPT !.metadata = idx[contract][program_id].metadata]
                  ELSE entry))

\* an insert that files the entry under the digest of its program id
IndexInsert_UnderDigest(idx, contract, program_id, entry) ==
    MapInsert(idx, contract,
        MapInsert(IF contract \in DOMAIN idx THEN idx[contract] ELSE EmptyMap,
                  program_id_digest(program_id), entry))

\* the index after contracts.entry(contract).or_default().programs.insert(..)
IndexInsert(idx, contract, program_id, entry) ==
    MapInsert(idx, contract,
        MapInsert(IF contract \in DOMAIN idx THEN idx[contract] ELSE EmptyMap,
                  program_id, entry))

\* under the index write lock: insert the entry, serialize the index
UploadUpdateIndex(t) ==
    /\ calls[t].op = "upload" /\ calls[t].pc = "update_index"
    /\ index' = IndexInsert(index, calls[t].contract, calls[t].program_id,
                            calls[t].entry)
    /\ calls' = [calls EXCEPT ![t].pc = "write_index",
                              ![t].index_bytes = IndexToVec(index')]
    /\ UNCHANGED <<phase, storage, cache, clock, fresh>>

\* self.storage.write_object(INDEX_FILE_NAME, &index_bytes)
UploadWriteIndex(t) ==
    /\ calls[t].op = "upload" /\ calls[t].pc = "write_index"
    /\ storage' = write_object(storage, INDEX_FILE_NAME, calls[t].index_bytes)
    /\ calls' = [calls EXCEPT ![t].pc = "cache_insert", ![t].index_bytes = Garbage]
    /\ UNCHANGED <<phase, index, cache, clock, fresh>>

\* under the cache lock: cache.insert(contract, program_id, bytes); Ok(entry)
UploadCacheInsert(t) ==
    /\ calls[t].op = "upload" /\ calls[t].pc = "cache_insert"
    /\ cache' = insert(cache, calls[t].contract, calls[t].program_id, calls[t].bytes)
    /\ calls' = [calls EXCEPT ![t] = Return(calls[t], OkEntry(calls[t].entry))]
    /\ fresh' = IF calls[t].alone
                THEN fresh \cup {[contract |-> calls[t].contract,
                                  program_id |-> calls[t].program_id,
                                  bytes |-> calls[t].bytes,
                                  entry |-> calls[t].entry,
                                  over |-> calls[t].over]}
                ELSE fresh
    /\ UNCHANGED <<phase, storage, index, clock>>

-----------------------------------------------------------------------------
(* RegistryService::download *)

DownloadStart(t, U) ==
    /\ CanStart(t, U.budget)
    /\ \E contract \in U.contracts, program_id \in U.programs :
          calls' = [calls EXCEPT ![t] =
              [Idle EXCEPT !.op = "download", !.pc = "cache_lookup",
                           !.contract = contract, !.program_id = program_id,
                           !.expect = Expected(contract, program_id)]]
    /\ clock' = clock + 1
    /\ UNCHANGED <<phase, storage, index, cache, fresh>>

\* under the cache lock: get_and_touch; a hit returns Ok(Some(bytes))
DownloadCacheLookup(t) ==
    /\ calls[t].op = "download" /\ calls[t].pc = "cache_lookup"
    /\ cache' = get_and_touch(cache, calls[t].contract, calls[t].program_id)
    /\ calls' = [calls EXCEPT ![t] =
          IF CacheHit(cache, calls[t].contract, calls[t].program_id)
          THEN Return(calls[t],
                   OkSome(CachedBytes(cache, calls[t].contract, calls[t].program_id)))
          ELSE [calls[t] EXCEPT !.pc = "index_lookup"]]
    /\ UNCHANGED <<phase, storage, index, clock, fresh>>

\* under the index read lock: the entry's object_path, or Ok(None)
DownloadIndexLookup(t) ==
    /\ calls[t].op = "download" /\ calls[t].pc = "index_lookup"
    /\ calls' = [calls EXCEPT ![t] =
          IF HasEntry(index, calls[t].contract, calls[t].program_id)
          THEN [calls[t] EXCEPT !.pc = "read_elf",
                   !.entry = index[calls[t].contract][calls[t].program_id]]
          ELSE Return(calls[t], OkNone)]
    /\ UNCHANGED <<phase, storage, index, cache, clock, fresh>>

\* self.storage.read_object(&object_path): the bytes, or Ok(None)
DownloadReadElf(t) ==
    /\ calls[t].op = "download" /\ calls[t].pc = "read_elf"
    /\ calls' = [calls EXCEPT ![t] =
          IF ObjectExists(storage, calls[t].entry.object_path)
          THEN [calls[t] EXCEPT !.pc = "cache_insert",
                   !.bytes = storage[calls[t].entry.object_path].bytes]
          ELSE Return(calls[t], OkNone)]
    /\ UNCHANGED <<phase, storage, index, cache, clock, fresh>>

\* under the cache lock: cache.insert(contract, program_id, bytes); Ok(Some(bytes))
DownloadCacheInsert(t) ==
    /\ calls[t].op = "download" /\ calls[t].pc = "cache_insert"
    /\ cache' = insert(cache, calls[t].contract, calls[t].program_id, calls[t].bytes)
    /\ calls' = [calls EXCEPT ![t] = Return(calls[t], OkSome(calls[t].bytes))]
    /\ UNCHANGED <<phase, storage, index, clock, fresh>>

-----------------------------------------------------------------------------
(* RegistryService::delete_program *)

DeleteProgramStart(t, U) ==
    /\ CanStart(t, U.budget)
    /\ \E contract \in U.contracts, program_id \in U.programs :
          StartMutation(t,
              [Idle EXCEPT !.op = "delete_program", !.pc = "lookup",
                           !.contract = contract, !.program_id = program_id],
              contract)
    /\ UNCHANGED <<phase, storage, index, cache>>

\* a lookup that, finding no entry, clears the contract's bucket of the cache
\* before it returns Ok(false)
DeleteProgramLookup_ClearsBucket(t) ==
    /\ calls[t].op = "delete_program" /\ calls[t].pc = "lookup"
    /\ calls' = [calls EXCEPT ![t] =
          IF HasEntry(index, calls[t].contract, calls[t].program_id)
          THEN [calls[t] EXCEPT !.pc = "delete_elf",
                   !.entry = index[calls[t].contract][calls[t].program_id]]
          ELSE Return(calls[t], OkBool(FALSE))]
    /\ cache' = IF HasEntry(index, calls[t].contract, calls[t].program_id)
                THEN cache
                ELSE remove_contract(cache, calls[t].contract)
    /\ UNCHANGED <<phase, storage, index, clock, fresh>>

\* under the index read lock: the entry, or Ok(false)
DeleteProgramLookup(t) ==
    /\ calls[t].op = "delete_program" /\ calls[t].pc = "lookup"
    /\ calls' = [calls EXCEPT ![t] =
          IF HasEntry(index, calls[t].contract, calls[t].program_id)
          THEN [calls[t] EXCEPT !.pc = "delete_elf",
                   !.entry = index[calls[t].contract][calls[t].program_id]]
          ELSE Return(calls[t], OkBool(FALSE))]
    /\ UNCHANGED <<phase, storage, index, cache, clock, fresh>>

\* self.storage.delete_object(&entry.object_path)
DeleteProgramElf(t) ==
    /\ calls[t].op = "delete_program" /\ calls[t].pc = "delete_elf"
    /\ storage' = delete_object(storage, calls[t].entry.object_path)
    /\ calls' = [calls EXCEPT ![t].pc = "delete_metadata"]
    /\ UNCHANGED <<phase, index, cache, clock, fresh>>

\* self.storage.delete_object(&entry.metadata_path)
DeleteProgramMetadata(t) ==
    /\ calls[t].op = "delete_program" /\ calls[t].pc = "delete_metadata"
    /\ storage' = delete_object(storage, calls[t].entry.metadata_path)
    /\ calls' = [calls EXCEPT ![t].pc = "update_index"]
    /\ UNCHANGED <<phase, index, cache, clock, fresh>>

\* a removal that leaves an emptied contract in the index
IndexRemoveProgram_NoPrune(idx, contract, program_id) ==
    IF contract \in DOMAIN idx
    THEN [idx EXCEPT ![contract] = MapRemove(idx[contract], program_id)]
    ELSE idx

\* a removal that drops the contract with all its programs
IndexRemoveProgram_DropsContract(idx, contract, program_id) ==
    MapRemove(idx, contract)

\* the index after programs.remove(program_id) and the pruning of an emptied contract
IndexRemoveProgram(idx, contract, program_id) ==
    IF contract \in DOMAIN idx
    THEN LET programs == MapRemove(idx[contract], program_id)
         IN  IF DOMAIN programs = {}
             THEN MapRemove(idx, contract)
             ELSE [idx EXCEPT ![contract] = programs]
    ELSE idx

\* under the index write lock: remove the entry, serialize the index
DeleteProgramUpdateIndex(t) ==
    /\ calls[t].op = "delete_program" /\ calls[t].pc = "update_index"
    /\ index' = IndexRemoveProgram(index, calls[t].contract, calls[t].program_id)
    /\ calls' = [calls EXCEPT ![t].pc = "write_index",
                              ![t].index_bytes = IndexToVec(index')]
    /\ UNCHANGED <<phase, storage, cache, clock, fresh>>

\* self.storage.write_object(INDEX_FILE_NAME, &index_bytes)
DeleteProgramWriteIndex(t) ==
    /\ calls[t].op = "delete_program" /\ calls[t].pc = "write_index"
    /\ storage' = write_object(storage, INDEX_FILE_NAME, calls[t].index_bytes)
    /\ calls' = [calls EXCEPT ![t].pc = "cache_remove", ![t].index_bytes = Garbage]
    /\ UNCHANGED <<phase, index, cache, clock, fresh>>

\* under the cache lock: cache.remove_program(contract, program_id); Ok(true)
DeleteProgramCacheRemove(t) ==
    /\ calls[t].op = "delete_program" /\ calls[t].pc = "cache_remove"
    /\ cache' = remove_program(cache, calls[t].contract, calls[t].program_id)
    /\ calls' = [calls EXCEPT ![t] = Return(calls[t], OkBool(TRUE))]
    /\ UNCHANGED <<phase, storage, index, clock, fresh>>

-----------------------------------------------------------------------------
(* RegistryService::delete_contract *)

DeleteContractStart(t, U) ==
    /\ CanStart(t, U.budget)
    /\ \E contract \in U.contracts :
          StartMutation(t,
              [Idle EXCEPT !.op = "delete_contract", !.pc = "lookup",
                           !.contract = contract],
              contract)
    /\ UNCHANGED <<phase, storage, index, cache>>

\* a loop that ends after its first entry
NextEntry_FirstOnly(call) ==
    IF call.todo = {} \/ call.todo # call.entries
    THEN {[call EXCEPT !.pc = "update_index", !.entry = NoEntry, !.todo = {}]}
    ELSE {[call EXCEPT !.pc = "delete_elf", !.entry = e, !.todo = call.todo \ {e}] :
            e \in call.todo}

\* The loop `for entry in &entries` comes to its next entry, in the order of
\* HashMap::values, which is any order; with none left the loop ends.
NextEntry(call) ==
    IF call.todo = {}
    THEN {[call EXCEPT !.pc = "update_index", !.entry = NoEntry]}
    ELSE {[call EXCEPT !.pc = "delete_elf", !.entry = e, !.todo = call.todo \ {e}] :
            e \in call.todo}

\* entry.programs.values().cloned().collect::<Vec<_>>()
ContractEntries(idx, contract) == { idx[contract][p] : p \in DOMAIN idx[contract] }

\* under the index read lock: a clone of the contract's entries, or Ok(false)
DeleteContractLookup(t) ==
    /\ calls[t].op = "delete_contract" /\ calls[t].pc = "lookup"
    /\ \E next \in IF calls[t].contract \in DOMAIN index
                  THEN NextEntry([calls[t] EXCEPT
                           !.entries = ContractEntries(index, calls[t].contract),
                           !.todo = ContractEntries(index, calls[t].contract)])
                  ELSE {Return(calls[t], OkBool(FALSE))} :
          calls' = [calls EXCEPT ![t] = next]
    /\ UNCHANGED <<phase, storage, index, cache, clock, fresh>>

\* self.storage.delete_object(&entry.object_path)
DeleteContractElf(t) ==
    /\ calls[t].op = "delete_contract" /\ calls[t].pc = "delete_elf"
    /\ storage' = delete_object(storage, calls[t].entry.object_path)
    /\ calls' = [calls EXCEPT ![t].pc = "delete_metadata"]
    /\ UNCHANGED <<phase, index, cache, clock, fresh>>

\* self.storage.delete_object(&entry.metadata_path), then the next entry
DeleteContractMetadata(t) ==
    /\ calls[t].op = "delete_contract" /\ calls[t].pc = "delete_metadata"
    /\ storage' = delete_object(storage, calls[t].entry.metadata_path)
    /\ \E next \in NextEntry(calls[t]) :
          calls' = [calls EXCEPT ![t] = next]
    /\ UNCHANGED <<phase, index, cache, clock, fresh>>

\* the index after contracts.remove(contract)
IndexRemoveContract(idx, contract) == MapRemove(idx, contract)

\* under the index write lock: remove the contract, serialize the index
DeleteContractUpdateIndex(t) ==
    /\ calls[t].op = "delete_contract" /\ calls[t].pc = "update_index"
    /\ index' = IndexRemoveContract(index, calls[t].contract)
    /\ calls' = [calls EXCEPT ![t].pc = "write_index",
                              ![t].index_bytes = IndexToVec(index')]
    /\ UNCHANGED <<phase, storage, cache, clock, fresh>>

\* self.storage.write_object(INDEX_FILE_NAME, &index_bytes)
DeleteContractWriteIndex(t) ==
    /\ calls[t].op = "delete_contract" /\ calls[t].pc = "write_index"
    /\ storage' = write_object(storage, INDEX_FILE_NAME, calls[t].index_bytes)
    /\ calls' = [calls EXCEPT ![t].pc = "cache_remove", ![t].index_bytes = Garbage]
    /\ UNCHANGED <<phase, index, cache, clock, fresh>>

\* under the cache lock: cache.remove_contract(contract); Ok(true)
DeleteContractCacheRemove(t) ==
    /\ calls[t].op = "delete_contract" /\ calls[t].pc = "cache_remove"
    /\ cache' = remove_contract(cache, calls[t].contract)
    /\ calls' = [calls EXCEPT ![t] = Return(calls[t], OkBool(TRUE))]
    /\ UNCHANGED <<phase, storage, index, clock, fresh>>

-----------------------------------------------------------------------------
(* Construction, and what ends a service *)

\* a construction that takes an index.json it cannot parse for a missing one
\* and rebuilds over it
load_or_rebuild_index_Fallback(st) ==
    IF ObjectExists(st, INDEX_FILE_NAME) /\ IndexParses(st[INDEX_FILE_NAME])
    THEN {[phase |-> "loaded", index |-> IndexFromSlice(st[INDEX_FILE_NAME]),
           storage |-> st]}
    ELSE {[phase |-> "rebuilt", index |-> idx,
           storage |-> write_object(st, INDEX_FILE_NAME, IndexToVec(idx))] :
            idx \in RebuildIndexes(st)}

\* a rebuild that returns its index and does not write index.json
load_or_rebuild_index_NoPersist(st) ==
    IF ObjectExists(st, INDEX_FILE_NAME)
    THEN IF IndexParses(st[INDEX_FILE_NAME])
         THEN {[phase |-> "loaded", index |-> IndexFromSlice(st[INDEX_FILE_NAME]),
                storage |-> st]}
         ELSE {[phase |-> "failed", index |-> EmptyMap, storage |-> st]}
    ELSE {[phase |-> "rebuilt", index |-> idx, storage |-> st] :
            idx \in RebuildIndexes(st)}

\* load_or_rebuild_index: the outcomes it can have over a backend, each with
\* the backend it leaves
load_or_rebuild_index(st) ==
    IF ObjectExists(st, INDEX_FILE_NAME)
    THEN IF IndexParses(st[INDEX_FILE_NAME])
         THEN {[phase |-> "loaded", index |-> IndexFromSlice(st[INDEX_FILE_NAME]),
                storage |-> st]}
         ELSE {[phase |-> "failed", index |-> EmptyMap, storage |-> st]}
    ELSE {[phase |-> "rebuilt", index |-> idx,
           storage |-> write_object(st, INDEX_FILE_NAME, IndexToVec(idx))] :
            idx \in RebuildIndexes(st)}

\* RegistryService::new: load_or_rebuild_index, then an empty cache
Construct ==
    /\ phase = "down"
    /\ \E made \in load_or_rebuild_index(storage) :
          /\ phase' = made.phase
          /\ index' = made.index
          /\ storage' = made.storage
    /\ cache' = EmptyMap
    /\ UNCHANGED <<calls, clock, fresh>>

\* The process dies: the index and the cache in memory are gone, the calls in
\* flight are cut at the await point they stood at, the backend stays.
Crash ==
    /\ Ready
    /\ phase' = "down"
    /\ index' = EmptyMap
    /\ cache' = EmptyMap
    /\ calls' = [t \in DOMAIN calls |->
                   IF InFlight(calls[t])
                   THEN [calls[t] EXCEPT !.pc = "crashed", !.at = calls[t].pc,
                                         !.index_bytes = Garbage, !.entries = {},
                                         !.todo = {}]
                   ELSE calls[t]]
    /\ fresh' = {}
    /\ UNCHANGED <<storage, clock>>

\* index.json is deleted out-of-band while no service runs
IndexLost ==
    /\ phase = "down"
    /\ ObjectExists(storage, INDEX_FILE_NAME)
    /\ storage' = delete_object(storage, INDEX_FILE_NAME)
    /\ UNCHANGED <<phase, index, cache, calls, clock, fresh>>

-----------------------------------------------------------------------------
(* Backends a service can be constructed over *)

\* a backend with nothing in it
EmptyBackend == [storage |-> EmptyMap, index |-> EmptyMap]

\* an entry uploaded by an earlier run of the service
PriorEntry(contract, program_id, bytes, toolchain) ==
    ProgramEntry(program_id, contract, binary_object_path(contract, program_id),
                 metadata_object_path(contract, program_id), Len(bytes), 0,
                 ProgramMetadata(toolchain))

\* the backend and the index an undisturbed upload leaves
AfterUpload(b, entry, bytes) ==
    LET idx == IndexInsert(b.index, entry.contract, entry.program_id, entry)
    IN  [storage |->
            write_object(
                write_object(
                    write_object(b.storage, entry.object_path, RawBytes(bytes)),
                    entry.metadata_path, EntryToVec(entry)),
                INDEX_FILE_NAME, IndexToVec(idx)),
         index |-> idx]

OneProgram ==
    AfterUpload(EmptyBackend, PriorEntry("c1", "p1", <<7, 8>>, "v1"), <<7, 8>>)

TwoPrograms ==
    AfterUpload(OneProgram, PriorEntry("c1", "p2", <<7>>, "v1"), <<7>>)

-----------------------------------------------------------------------------
(* The service under concurrent callers: no crash, no backend failure *)

MainU ==
    [tasks |-> Tasks, contracts |-> {"c1"}, programs |-> {"p1", "p2"},
     payloads |-> {<<9, 8>>}, toolchains |-> {"v2"},
     budget |-> MaxOps, ticking |-> FALSE]

\* the service has been constructed over an empty backend, or over the
\* backend an earlier run left after two uploads
Init ==
    /\ \E b \in {EmptyBackend, TwoPrograms} :
          \E made \in load_or_rebuild_index(b.storage) :
             /\ phase = made.phase
             /\ index = made.index
             /\ storage = made.storage
    /\ cache = EmptyMap
    /\ calls = [t \in MainU.tasks |-> Idle]
    /\ clock = 0
    /\ fresh = {}

Next ==
    \E t \in MainU.tasks :
        \/ UploadStart(t, MainU)
        \/ UploadStoreElf(t)
        \/ UploadStoreMetadata(t)
        \/ UploadUpdateIndex(t)
        \/ UploadWriteIndex(t)
        \/ UploadCacheInsert(t)
        \/ DownloadStart(t, MainU)
        \/ DownloadCacheLookup(t)
        \/ DownloadIndexLookup(t)
        \/ DownloadReadElf(t)
        \/ DownloadCacheInsert(t)
        \/ DeleteProgramStart(t, MainU)
        \/ DeleteProgramLookup(t)
        \/ DeleteProgramElf(t)
        \/ DeleteProgramMetadata(t)
        \/ DeleteProgramUpdateIndex(t)
        \/ DeleteProgramWriteIndex(t)
        \/ DeleteProgramCacheRemove(t)
        \/ DeleteContractStart(t, MainU)
        \/ DeleteContractLookup(t)
        \/ DeleteContractElf(t)
        \/ DeleteContractMetadata(t)
        \/ DeleteContractUpdateIndex(t)
        \/ DeleteContractWriteIndex(t)
        \/ DeleteContractCacheRemove(t)

Spec == Init /\ [][Next]_vars

-----------------------------------------------------------------------------
(* Construction over any backend, crashes and restarts, one caller *)

BootU ==
    [tasks |-> {"t1"}, contracts |-> {"c1"}, programs |-> {"p1", "p2"},
     payloads |-> {<<9, 8>>}, toolchains |-> {"v2"}, budget |-> MaxBootOps,
     ticking |-> FALSE]

\* the keys of the metadata objects a backend may hold before construction
BootMetadataKeys ==
    {metadata_object_path("c1", "p1"), metadata_object_path("c1", "p2"),
     metadata_object_path("c2", "p1")}

\* what such an object may hold: text that is no ProgramEntry, or the entry
\* of a pair, which need not be the pair its key derives from
BootMetadata ==
    {Garbage} \cup
    { EntryToVec(PriorEntry(pr[1], pr[2], <<7, 8>>, "v1")) :
        pr \in {<<"c1", "p1">>, <<"c2", "p1">>} } \cup
    { EntryToVec(PriorEntry("c1", "p1", <<7>>, "v1")) }

BootBinaryKeys ==
    {binary_object_path("c1", "p1"), binary_object_path("c2", "p1")}

\* index.json before construction: an index naming no program, an index
\* naming one, or text that is no IndexFile
BootIndexes ==
    {IndexToVec(EmptyMap), IndexToVec(OneProgram.index), Garbage}

\* the union of maps over disjoint keys
Merge(f, g) ==
    [k \in DOMAIN f \cup DOMAIN g |-> IF k \in DOMAIN f THEN f[k] ELSE g[k]]

BootBackends ==
    { Merge(Merge(metas, [k \in elfs |-> RawBytes(<<7, 8>>)]), idx) :
        metas \in UNION { [keys -> BootMetadata] : keys \in SUBSET BootMetadataKeys },
        elfs \in SUBSET BootBinaryKeys,
        idx \in {EmptyMap} \cup { [k \in {INDEX_FILE_NAME} |-> i] : i \in BootIndexes } }

InitBoot ==
    /\ phase = "down"
    /\ storage \in BootBackends
    /\ index = EmptyMap
    /\ cache = EmptyMap
    /\ calls = [t \in BootU.tasks |-> Idle]
    /\ clock = 0
    /\ fresh = {}

NextBoot ==
    \/ Construct
    \/ Crash
    \/ IndexLost
    \/ \E t \in BootU.tasks :
        \/ UploadStart(t, BootU)
        \/ UploadStoreElf(t)
        \/ UploadStoreMetadata(t)
        \/ UploadUpdateIndex(t)
        \/ UploadWriteIndex(t)
        \/ UploadCacheInsert(t)

SpecBoot == InitBoot /\ [][NextBoot]_vars

-----------------------------------------------------------------------------
(* What the properties below speak of *)

\* task t takes this step
Stepped(t) == calls'[t].pc # calls[t].pc

\* no call is under way
Quiescent == \A t \in DOMAIN calls : ~InFlight(calls[t])

\* no mutation of the contract is under way
QuietContract(contract) ==
    \A t \in DOMAIN calls :
        ~(InFlight(calls[t]) /\ calls[t].op \in Mutations /\ calls[t].contract = contract)

\* no mutation is under way
NoMutationInFlight ==
    \A t \in DOMAIN calls : ~(InFlight(calls[t]) /\ calls[t].op \in Mutations)

\* this step leaves every indexed program other than (contract, program_id)
\* in the index, with its entry and its two objects as they were
OthersKept(contract, program_id) ==
    \A c \in DOMAIN index : \A p \in DOMAIN index[c] :
        <<c, p>> # <<contract, program_id>> =>
            /\ HasEntry(index', c, p)
            /\ index'[c][p] = index[c][p]
            /\ \A k \in {index[c][p].object_path, index[c][p].metadata_path} :
                  ObjectExists(storage, k) =>
                      ObjectExists(storage', k) /\ storage'[k] = storage[k]

-----------------------------------------------------------------------------
(* C1.  An upload that returns Ok with no other mutation of its contract    *)
(* under way is followed, until the next mutation of the contract starts,  *)
(* by downloads of the pair that return exactly the uploaded bytes; the     *)
(* entry the upload returns and the entry in the index have                 *)
(* size_bytes = length of the bytes.                                       *)
C1_UploadThenDownload ==
    /\ \A t \in DOMAIN calls :
          (calls[t].op = "download" /\ calls[t].pc = "done" /\ calls[t].expect.has)
              => calls[t].result = OkSome(calls[t].expect.bytes)
    /\ \A t \in DOMAIN calls :
          (calls[t].op = "upload" /\ calls[t].pc = "done")
              => /\ calls[t].result.status = "ok"
                 /\ calls[t].result.entry.size_bytes = Len(calls[t].bytes)
    /\ \A f \in fresh :
          /\ HasEntry(index, f.contract, f.program_id)
          /\ index[f.contract][f.program_id].size_bytes = Len(f.bytes)

(* C2.  A re-upload of an existing pair with other bytes and other metadata *)
(* that returns Ok undisturbed leaves, until the next mutation of the       *)
(* contract starts: the new bytes in the binary object, the new entry in    *)
(* the metadata object and in the index, one entry for the pair, and        *)
(* downloads of the pair that return the new bytes.                         *)
C2_ReuploadReplaces ==
    /\ \A f \in fresh :
          f.over =>
              /\ ObjectExists(storage, binary_object_path(f.contract, f.program_id))
              /\ storage[binary_object_path(f.contract, f.program_id)] = RawBytes(f.bytes)
              /\ ObjectExists(storage, metadata_object_path(f.contract, f.program_id))
              /\ storage[metadata_object_path(f.contract, f.program_id)] = EntryToVec(f.entry)
              /\ HasEntry(index, f.contract, f.program_id)
              /\ index[f.contract][f.program_id] = f.entry
              /\ f.entry.size_bytes = Len(f.bytes)
              /\ Cardinality({ e \in ContractEntries(index, f.contract) :
                                 e.program_id = f.program_id }) = 1
    /\ \A t \in DOMAIN calls :
          (/\ calls[t].op = "download" /\ calls[t].pc = "done"
           /\ calls[t].expect.has /\ calls[t].expect.over)
              => calls[t].result = OkSome(calls[t].expect.bytes)

(* C3.  delete_program of a pair that is not in the index returns Ok(false) *)
(* at its lookup, and that step changes neither the index, nor any backend  *)
(* object (index.json among them), nor the cache; Ok(false) is returned in  *)
(* no other case.                                                          *)
C3_DeleteProgramAbsent ==
    [][\A t \in DOMAIN calls :
          /\ (/\ calls[t].op = "delete_program" /\ calls[t].pc = "lookup" /\ Stepped(t)
              /\ ~HasEntry(index, calls[t].contract, calls[t].program_id))
                => /\ calls'[t].pc = "done"
                   /\ calls'[t].result = OkBool(FALSE)
                   /\ UNCHANGED <<index, storage, cache>>
          /\ (/\ calls[t].op = "delete_program" /\ Stepped(t)
              /\ calls'[t].pc = "done" /\ ~calls'[t].result.found)
                => /\ ~HasEntry(index, calls[t].contract, calls[t].program_id)
                   /\ UNCHANGED <<index, storage, cache>>
      ]_vars

C3_Witness ==
    \E t \in DOMAIN calls :
        /\ calls[t].op = "delete_program" /\ calls[t].pc = "done"
        /\ calls[t].result = OkBool(FALSE)
        /\ index # EmptyMap /\ cache # EmptyMap

(* C4.  delete_program of a pair that is in the index goes on past its      *)
(* lookup and returns Ok(true); when it returns the cache has no entry for  *)
(* the pair and, no other mutation of the contract having overlapped it,    *)
(* neither the binary key nor the metadata key of the pair holds an object  *)
(* and the index has no entry for the pair; no step of it touches the       *)
(* entry or the objects of any other program.                              *)
C4_DeleteProgramPresent ==
    [][\A t \in DOMAIN calls :
          LET c == calls[t].contract
              p == calls[t].program_id
          IN  (calls[t].op = "delete_program" /\ Stepped(t)) =>
                /\ (calls[t].pc = "lookup" /\ HasEntry(index, c, p))
                      => calls'[t].pc = "delete_elf"
                /\ (calls'[t].pc = "done" /\ calls[t].pc # "lookup")
                      => /\ calls[t].pc = "cache_remove"
                         /\ calls'[t].result = OkBool(TRUE)
                         /\ ~CacheHit(cache', c, p)
                         /\ calls[t].alone =>
                               /\ ~ObjectExists(storage', binary_object_path(c, p))
                               /\ ~ObjectExists(storage', metadata_object_path(c, p))
                               /\ ~HasEntry(index', c, p)
                /\ OthersKept(c, p)
      ]_vars

C4_Witness ==
    \E t \in DOMAIN calls :
        /\ calls[t].op = "delete_program" /\ calls[t].pc = "done"
        /\ calls[t].result = OkBool(TRUE) /\ calls[t].alone
        /\ calls[t].contract \in DOMAIN index
        /\ \E q \in DOMAIN index[calls[t].contract] :
              /\ q # calls[t].program_id
              /\ ObjectExists(storage, binary_object_path(calls[t].contract, q))
              /\ ObjectExists(storage, metadata_object_path(calls[t].contract, q))

(* C5.  delete_contract of a contract that is not in the index returns     *)
(* Ok(false) at its lookup, and that step changes neither the index, nor    *)
(* any backend object, nor the cache.  Of a contract that is in the index   *)
(* it takes the entries of all the contract's programs, goes on and returns *)
(* Ok(true); when it returns the cache has no entry for the contract and,   *)
(* no other mutation of the contract having overlapped it, the contract key *)
(* is not in the index and none of the binary and metadata objects of the   *)
(* entries it took is in the backend.                                      *)
C5_DeleteContract ==
    [][\A t \in DOMAIN calls :
          LET c == calls[t].contract
          IN  (calls[t].op = "delete_contract" /\ Stepped(t)) =>
                /\ (calls[t].pc = "lookup" /\ c \notin DOMAIN index)
                      => /\ calls'[t].pc = "done"
                         /\ calls'[t].result = OkBool(FALSE)
                         /\ UNCHANGED <<index, storage, cache>>
                /\ (calls[t].pc = "lookup" /\ c \in DOMAIN index)
                      => /\ calls'[t].pc \in {"delete_elf", "update_index"}
                         /\ calls'[t].entries =
                               { index[c][p] : p \in DOMAIN index[c] }
                /\ (calls'[t].pc = "done" /\ calls[t].pc # "lookup")
                      => /\ calls[t].pc = "cache_remove"
                         /\ calls'[t].result = OkBool(TRUE)
                         /\ c \notin DOMAIN cache'
                         /\ calls[t].alone =>
                               /\ c \notin DOMAIN index'
                               /\ \A e \in calls[t].entries :
                                     /\ ~ObjectExists(storage', e.object_path)
                                     /\ ~ObjectExists(storage', e.metadata_path)
      ]_vars

C5_Witness ==
    \E t, u \in DOMAIN calls :
        /\ calls[t].op = "delete_contract" /\ calls[t].pc = "done"
        /\ calls[t].result = OkBool(TRUE) /\ calls[t].alone
        /\ Cardinality(calls[t].entries) = 2
        /\ calls[t].contract \notin DOMAIN index
        /\ calls[u].op = "delete_contract" /\ calls[u].pc = "done"
        /\ calls[u].result = OkBool(FALSE)

\* the (contract, program_id) pairs an index has an entry for
IndexedPairs(idx) ==
    UNION { { <<c, p>> : p \in DOMAIN idx[c] } : c \in DOMAIN idx }

(* C6.  A construction over a backend without index.json succeeds by a      *)
(* rebuild, whatever the metadata objects hold, and the index it returns    *)
(* has an entry for exactly the pairs (contract, program_id) embedded in    *)
(* the objects, other than index.json, whose key ends in .json and whose    *)
(* content parses as a ProgramEntry; each entry is filed under its embedded *)
(* contract and program id and is one of the parsed entries; an object      *)
(* that does not parse contributes nothing.                                *)
C6_RebuildFromMetadata ==
    [][(phase = "down" /\ phase' # "down" /\ INDEX_FILE_NAME \notin DOMAIN storage)
          => LET readable == { k \in DOMAIN storage :
                                 /\ Len(k) >= 5
                                 /\ SubSeq(k, Len(k) - 4, Len(k)) = ".json"
                                 /\ k # "index.json"
                                 /\ storage[k].kind = "entry" }
                 parsed == { storage[k].doc : k \in readable }
             IN  /\ phase' = "rebuilt"
                 /\ IndexedPairs(index') =
                       { <<e.contract, e.program_id>> : e \in parsed }
                 /\ \A c \in DOMAIN index' :
                       /\ DOMAIN index'[c] # {}
                       /\ \A p \in DOMAIN index'[c] :
                             /\ index'[c][p] \in parsed
                             /\ index'[c][p].contract = c
                             /\ index'[c][p].program_id = p
      ]_vars

C6_Witness ==
    /\ phase = "rebuilt" /\ clock = 0
    /\ \E k \in DOMAIN storage :
          EndsWith(k, ".json") /\ k # INDEX_FILE_NAME /\ storage[k] = Garbage
    /\ \E k \in DOMAIN storage :
          /\ EndsWith(k, ".json") /\ k # INDEX_FILE_NAME /\ storage[k].kind = "entry"
          /\ storage[k].doc.contract # DirOf(k)
          /\ HasEntry(index, storage[k].doc.contract, storage[k].doc.program_id)
    /\ Cardinality(IndexedPairs(index)) = 2

(* C7, as stated.  An upload cut by a crash after its binary object was     *)
(* written and before its index.json write has its pair in the index of     *)
(* the service constructed next.                                           *)
C7_CrashedUploadDiscovered ==
    \A t \in DOMAIN calls :
        (/\ calls[t].op = "upload" /\ calls[t].pc = "crashed"
         /\ calls[t].at \in {"store_metadata", "update_index", "write_index"}
         /\ Ready)
            => HasEntry(index, calls[t].contract, calls[t].program_id)

(* C7, amended.  An upload cut by a crash after its metadata object was     *)
(* written and before its index.json write has its pair in the index of a   *)
(* service constructed afterwards by a rebuild, that is, over a backend     *)
(* from which index.json was absent.                                       *)
C7_CrashedUploadRebuilt ==
    \A t \in DOMAIN calls :
        (/\ calls[t].op = "upload" /\ calls[t].pc = "crashed"
         /\ calls[t].at \in {"update_index", "write_index"}
         /\ phase = "rebuilt")
            => HasEntry(index, calls[t].contract, calls[t].program_id)

C7_Witness ==
    \E t \in DOMAIN calls :
        /\ calls[t].op = "upload" /\ calls[t].pc = "crashed"
        /\ calls[t].at \in {"update_index", "write_index"}
        /\ phase = "rebuilt"
        /\ HasEntry(index, calls[t].contract, calls[t].program_id)
        /\ index[calls[t].contract][calls[t].program_id] = calls[t].entry

(* C8.  Whenever no operation is in flight, every entry of the index has   *)
(* its binary object and its metadata object in the backend.               *)
C8_IndexedObjectsPresent ==
    Quiescent =>
        \A c \in DOMAIN index : \A p \in DOMAIN index[c] :
            /\ ObjectExists(storage, index[c][p].object_path)
            /\ ObjectExists(storage, index[c][p].metadata_path)

(* C9.  Whenever no mutation is in flight, index.json is in the backend and *)
(* holds the serialization of the index in memory.                         *)
C9_IndexPersisted ==
    NoMutationInFlight =>
        /\ ObjectExists(storage, INDEX_FILE_NAME)
        /\ IndexParses(storage[INDEX_FILE_NAME])
        /\ IndexFromSlice(storage[INDEX_FILE_NAME]) = index

(* C10.  A download that consults the cache while its pair is not in the    *)
(* index and no mutation of the contract is under way does not return       *)
(* bytes; a download whose index lookup found an entry and whose read finds *)
(* no binary object returns Ok(None), and that step changes neither the     *)
(* index nor the backend and constructs nothing anew.                      *)
C10_DownloadNotFound ==
    [][\A t \in DOMAIN calls :
          LET c == calls[t].contract
              p == calls[t].program_id
          IN  (calls[t].op = "download" /\ Stepped(t)) =>
                /\ (/\ calls[t].pc \in {"cache_lookup", "index_lookup"}
                    /\ ~HasEntry(index, c, p) /\ QuietContract(c)
                    /\ calls'[t].pc = "done")
                      => calls'[t].result = OkNone
                /\ (/\ calls[t].pc = "read_elf"
                    /\ ~ObjectExists(storage, calls[t].entry.object_path))
                      => /\ calls'[t].pc = "done"
                         /\ calls'[t].result = OkNone
                         /\ UNCHANGED <<index, storage, phase>>
      ]_vars

\* some call on the pair, or a delete_contract of its contract, is under way
PairInFlight(contract, program_id) ==
    \E t \in DOMAIN calls :
        /\ InFlight(calls[t]) /\ calls[t].contract = contract
        /\ calls[t].op = "delete_contract" \/ calls[t].program_id = program_id

(* C11.  Whenever no operation on a pair is in flight, bytes the cache      *)
(* holds for the pair are the content of the binary object at the pair's    *)
(* key, which exists.                                                      *)
C11_CacheBackedByBackend ==
    \A c \in DOMAIN cache : \A i \in 1..Len(cache[c]) :
        ~PairInFlight(c, cache[c][i].program_id) =>
            /\ ObjectExists(storage, binary_object_path(c, cache[c][i].program_id))
            /\ storage[binary_object_path(c, cache[c][i].program_id)]
                  = RawBytes(cache[c][i].bytes)


-----------------------------------------------------------------------------
(* The cache under one caller: uploads and downloads of three programs of   *)
(* two contracts, one after the other, over an empty backend                *)

\* operations started in one run of the cache specification
MaxCacheOps == 4

CacheU ==
    [tasks |-> {"t1"}, contracts |-> {"c1", "c2"}, programs |-> {"p1", "p2", "p3"},
     payloads |-> {<<9, 8>>, <<7>>}, toolchains |-> {"v2"},
     budget |-> MaxCacheOps, ticking |-> TRUE]

InitCache ==
    /\ \E made \in load_or_rebuild_index(EmptyBackend.storage) :
          /\ phase = made.phase
          /\ index = made.index
          /\ storage = made.storage
    /\ cache = EmptyMap
    /\ calls = [t \in CacheU.tasks |-> Idle]
    /\ clock = 0
    /\ fresh = {}

NextCache ==
    \E t \in CacheU.tasks :
        \/ UploadStart(t, CacheU)
        \/ UploadStoreElf(t)
        \/ UploadStoreMetadata(t)
        \/ UploadUpdateIndex(t)
        \/ UploadWriteIndex(t)
        \/ UploadCacheInsert(t)
        \/ DownloadStart(t, CacheU)
        \/ DownloadCacheLookup(t)
        \/ DownloadIndexLookup(t)
        \/ DownloadReadElf(t)
        \/ DownloadCacheInsert(t)

SpecCache == InitCache /\ [][NextCache]_vars


\* the programs of a contract of the index, earliest upload first
ByUploadTime(idx, contract) ==
    LET ps == DOMAIN idx[contract]
    IN  CHOOSE seq \in [1..Cardinality(ps) -> ps] :
            /\ \A i, j \in DOMAIN seq : i < j =>
                  /\ seq[i] # seq[j]
                  /\ idx[contract][seq[i]].uploaded_at <= idx[contract][seq[j]].uploaded_at

\* the cache entry that holds what the binary object of the pair holds
StoredEntry(contract, program_id) ==
    CacheEntry(program_id, storage[binary_object_path(contract, program_id)].bytes)

(* C12.  One caller, an empty backend.  After three uploads of three        *)
(* distinct program ids under one contract and nothing else, the cache list *)
(* of the contract is the third program then the second, each with the      *)
(* bytes uploaded, and the first is not cached.  When the fourth operation  *)
(* is a download of the first program, it returns the bytes uploaded for    *)
(* it, and the cache list is then the first program followed by the third:  *)
(* the second, least recently used, is evicted.                            *)
C12_ThirdUploadEvictsFirst ==
    \A c \in DOMAIN index :
        (Quiescent /\ Cardinality(DOMAIN index[c]) = 3) =>
            LET order == ByUploadTime(index, c)
            IN  /\ clock = 3 =>
                      /\ c \in DOMAIN cache
                      /\ cache[c] = <<StoredEntry(c, order[3]), StoredEntry(c, order[2])>>
                      /\ ~CacheHit(cache, c, order[1])
                /\ \A t \in DOMAIN calls :
                      (/\ clock = 4 /\ calls[t].op = "download"
                       /\ calls[t].contract = c /\ calls[t].program_id = order[1])
                          => /\ calls[t].result = OkSome(StoredEntry(c, order[1]).bytes)
                             /\ c \in DOMAIN cache
                             /\ cache[c] = <<StoredEntry(c, order[1]),
                                             StoredEntry(c, order[3])>>

C12_Witness ==
    \E c \in DOMAIN index, t \in DOMAIN calls :
        /\ Quiescent /\ Cardinality(DOMAIN index[c]) = 3 /\ clock = 4
        /\ calls[t].op = "download" /\ calls[t].contract = c
        /\ calls[t].program_id = ByUploadTime(index, c)[1]
        /\ calls[t].result.found
        /\ calls[t].result.bytes # StoredEntry(c, ByUploadTime(index, c)[2]).bytes
        /\ calls[t].result.bytes # StoredEntry(c, ByUploadTime(index, c)[3]).bytes


(* C13.  The cache list of every contract holds at most 2 entries, and a    *)
(* step of a call on one contract leaves the cache list of every other      *)
(* contract as it was: present with the same entries in the same order.    *)
C13_PerContractBound ==
    [][/\ \A c \in DOMAIN cache' : Len(cache'[c]) <= 2
       /\ \A t \in DOMAIN calls :
             Stepped(t) =>
                 \A b \in (DOMAIN cache \cup DOMAIN cache') \ {calls'[t].contract} :
                     /\ b \in DOMAIN cache /\ b \in DOMAIN cache'
                     /\ cache'[b] = cache[b]
      ]_vars

C13_Witness ==
    \E t \in DOMAIN calls, b \in DOMAIN cache :
        /\ calls[t].op = "upload" /\ calls[t].pc = "done"
        /\ calls[t].contract \in DOMAIN index /\ calls[t].contract \in DOMAIN cache
        /\ Cardinality(DOMAIN index[calls[t].contract]) = 3
        /\ Len(cache[calls[t].contract]) = 2
        /\ b # calls[t].contract


(* C14.  No contract key of the index maps to an empty program map.         *)
C14_NoEmptyContract ==
    \A c \in DOMAIN index : DOMAIN index[c] # {}

\* a delete_program has removed the last program of its contract, after an
\* upload had put it there, and the contract key is gone
C14_Witness ==
    \E t, u \in DOMAIN calls :
        /\ calls[t].op = "delete_program" /\ calls[t].pc = "done"
        /\ calls[t].result = OkBool(TRUE) /\ calls[t].alone
        /\ calls[u].op = "upload" /\ calls[u].pc = "done"
        /\ calls[u].contract = calls[t].contract
        /\ calls[t].contract \notin DOMAIN index


-----------------------------------------------------------------------------
(* RegistryService::list_contract and RegistryService::list_all *)

\* Some(programs) of list_contract, the map of list_all: a Vec<ProgramInfo>
\* in the order of HashMap::values, kept as the set of its elements
OkListed(listed) ==
    [status |-> "ok", found |-> TRUE, bytes |-> <<>>, entry |-> NoEntry,
     listed |-> listed]

\* None of list_contract
NoneListed ==
    [status |-> "ok", found |-> FALSE, bytes |-> <<>>, entry |-> NoEntry,
     listed |-> {}]

\* a listing that answers an unknown contract with an empty list
list_contract_OrDefault(idx, contract) ==
    OkListed(IF contract \in DOMAIN idx
             THEN { from_entry(idx[contract][p]) : p \in DOMAIN idx[contract] }
             ELSE {})

\* index.contracts.get(contract).map(|entry| entry.programs.values()
\*     .map(ProgramInfo::from_entry).collect())
list_contract(idx, contract) ==
    IF contract \in DOMAIN idx
    THEN OkListed({ from_entry(idx[contract][p]) : p \in DOMAIN idx[contract] })
    ELSE NoneListed

\* a listing that keeps one program of each contract
list_all_OnePerContract(idx) ==
    OkListed([c \in DOMAIN idx |->
                 { from_entry(idx[c][CHOOSE p \in DOMAIN idx[c] : TRUE]) }])

\* index.contracts.iter().map(|(contract, entry)| (contract, programs)).collect()
list_all(idx) ==
    OkListed([c \in DOMAIN idx |->
                 { from_entry(idx[c][p]) : p \in DOMAIN idx[c] }])

ListContractStart(t, U) ==
    /\ CanStart(t, U.budget)
    /\ \E contract \in U.contracts :
          calls' = [calls EXCEPT ![t] =
              [Idle EXCEPT !.op = "list_contract", !.pc = "read_index",
                           !.contract = contract]]
    /\ clock' = clock + 1
    /\ UNCHANGED <<phase, storage, index, cache, fresh>>

\* under the index read lock: the projections of the contract's entries
ListContractRead(t) ==
    /\ calls[t].op = "list_contract" /\ calls[t].pc = "read_index"
    /\ calls' = [calls EXCEPT ![t] =
          Return(calls[t], list_contract(index, calls[t].contract))]
    /\ UNCHANGED <<phase, storage, index, cache, clock, fresh>>

ListAllStart(t, U) ==
    /\ CanStart(t, U.budget)
    /\ calls' = [calls EXCEPT ![t] =
          [Idle EXCEPT !.op = "list_all", !.pc = "read_index"]]
    /\ clock' = clock + 1
    /\ UNCHANGED <<phase, storage, index, cache, fresh>>

\* under the index read lock: the projections of every contract's entries
ListAllRead(t) ==
    /\ calls[t].op = "list_all" /\ calls[t].pc = "read_index"
    /\ calls' = [calls EXCEPT ![t] = Return(calls[t], list_all(index))]
    /\ UNCHANGED <<phase, storage, index, cache, clock, fresh>>

-----------------------------------------------------------------------------
(* Backend failures.  A backend call of an operation returns Err; the `?`   *)
(* after the await returns the error to the caller and the operation runs   *)
(* none of its later steps.  A call that failed has changed nothing in the  *)
(* backend.                                                                *)

\* a backend error swallowed: the operation reports that nothing was there
Err_Swallowed == OkBool(FALSE)

\* Err(_) of any operation
Err == [status |-> "err", found |-> FALSE, bytes |-> <<>>, entry |-> NoEntry]

\* write_object fails: .context("storing elf")?, .context("storing metadata")?,
\* .context("writing index")?
UploadFails(t) ==
    /\ calls[t].op = "upload"
    /\ calls[t].pc \in {"store_elf", "store_metadata", "write_index"}
    /\ calls' = [calls EXCEPT ![t] = Return(calls[t], Err)]
    /\ UNCHANGED <<phase, storage, index, cache, clock, fresh>>

\* a failed read taken for a missing object
DownloadFails_NotFound(t) ==
    /\ calls[t].op = "download" /\ calls[t].pc = "read_elf"
    /\ calls' = [calls EXCEPT ![t] = Return(calls[t], OkNone)]
    /\ UNCHANGED <<phase, storage, index, cache, clock, fresh>>

\* read_object fails: self.storage.read_object(&object_path).await?
DownloadFails(t) ==
    /\ calls[t].op = "download" /\ calls[t].pc = "read_elf"
    /\ calls' = [calls EXCEPT ![t] = Return(calls[t], Err)]
    /\ UNCHANGED <<phase, storage, index, cache, clock, fresh>>

\* delete_object or write_object fails: .context("deleting elf")?,
\* .context("deleting metadata")?, .context("writing index")?
DeleteProgramFails(t) ==
    /\ calls[t].op = "delete_program"
    /\ calls[t].pc \in {"delete_elf", "delete_metadata", "write_index"}
    /\ calls' = [calls EXCEPT ![t] = Return(calls[t], Err)]
    /\ UNCHANGED <<phase, storage, index, cache, clock, fresh>>

\* delete_object fails for some entry of the loop, or write_object fails
DeleteContractFails(t) ==
    /\ calls[t].op = "delete_contract"
    /\ calls[t].pc \in {"delete_elf", "delete_metadata", "write_index"}
    /\ calls' = [calls EXCEPT ![t] = Return(calls[t], Err)]
    /\ UNCHANGED <<phase, storage, index, cache, clock, fresh>>

\* operations started in one run of the specification with failures
MaxFailOps == 2

FailU ==
    [tasks |-> Tasks, contracts |-> {"c1"}, programs |-> {"p1", "p2"},
     payloads |-> {<<9, 8>>}, toolchains |-> {"v2"},
     budget |-> MaxFailOps, ticking |-> FALSE]

NextFail ==
    \E t \in FailU.tasks :
        \/ UploadStart(t, FailU)
        \/ UploadStoreElf(t)
        \/ UploadStoreMetadata(t)
        \/ UploadUpdateIndex(t)
        \/ UploadWriteIndex(t)
        \/ UploadCacheInsert(t)
        \/ UploadFails(t)
        \/ DownloadStart(t, FailU)
        \/ DownloadCacheLookup(t)
        \/ DownloadIndexLookup(t)
        \/ DownloadReadElf(t)
        \/ DownloadCacheInsert(t)
        \/ DownloadFails(t)
        \/ DeleteProgramStart(t, FailU)
        \/ DeleteProgramLookup(t)
        \/ DeleteProgramElf(t)
        \/ DeleteProgramMetadata(t)
        \/ DeleteProgramUpdateIndex(t)
        \/ DeleteProgramWriteIndex(t)
        \/ DeleteProgramCacheRemove(t)
        \/ DeleteProgramFails(t)
        \/ DeleteContractStart(t, FailU)
        \/ DeleteContractLookup(t)
        \/ DeleteContractElf(t)
        \/ DeleteContractMetadata(t)
        \/ DeleteContractUpdateIndex(t)
        \/ DeleteContractWriteIndex(t)
        \/ DeleteContractCacheRemove(t)
        \/ DeleteContractFails(t)
        \/ ListContractStart(t, FailU)
        \/ ListContractRead(t)
        \/ ListAllStart(t, FailU)
        \/ ListAllRead(t)

\* the callers of the concurrent specification, over the same backends,
\* with backend calls that can fail
SpecFail == Init /\ [][NextFail]_vars


\* this step writes content at key and leaves every other object as it was
OnlyObjectWritten(key, content) ==
    storage' = [k \in DOMAIN storage \cup {key} |->
                   IF k = key THEN content ELSE storage[k]]

(* C15.  Every step of an upload is the next of: write of the binary        *)
(* object, write of the metadata object, insertion of the entry into the    *)
(* index, write of index.json, insertion into the cache, return of Ok; or   *)
(* it is the failure of one of the three backend writes, which returns Err  *)
(* and changes nothing.  Each step has its own effect and no other, so the  *)
(* index gets the entry of an upload only after that upload wrote its       *)
(* binary and then its metadata; with no other mutation of the contract     *)
(* overlapping, both objects hold what it wrote when the entry goes in.     *)
C15_UploadOrder ==
    [][\A t \in DOMAIN calls :
          LET call == calls[t]
              now == calls'[t]
          IN  (call.op = "upload" /\ InFlight(call) /\ Stepped(t)) =>
                \/ /\ call.pc \in {"store_elf", "store_metadata", "write_index"}
                   /\ now.pc = "done" /\ now.result.status = "err"
                   /\ UNCHANGED <<storage, index, cache>>
                \/ /\ call.pc = "store_elf" /\ now.pc = "store_metadata"
                   /\ OnlyObjectWritten(binary_object_path(call.contract, call.program_id),
                                        RawBytes(call.bytes))
                   /\ UNCHANGED <<index, cache>>
                \/ /\ call.pc = "store_metadata" /\ now.pc = "update_index"
                   /\ OnlyObjectWritten(metadata_object_path(call.contract, call.program_id),
                                        EntryToVec(call.entry))
                   /\ UNCHANGED <<index, cache>>
                \/ /\ call.pc = "update_index" /\ now.pc = "write_index"
                   /\ HasEntry(index', call.contract, call.program_id)
                   /\ index'[call.contract][call.program_id] = call.entry
                   /\ \A c \in DOMAIN index : \A p \in DOMAIN index[c] :
                         <<c, p>> # <<call.contract, call.program_id>> =>
                             HasEntry(index', c, p) /\ index'[c][p] = index[c][p]
                   /\ call.alone =>
                         /\ ObjectExists(storage, call.entry.object_path)
                         /\ storage[call.entry.object_path] = RawBytes(call.bytes)
                         /\ ObjectExists(storage, call.entry.metadata_path)
                         /\ storage[call.entry.metadata_path] = EntryToVec(call.entry)
                   /\ UNCHANGED <<storage, cache>>
                \/ /\ call.pc = "write_index" /\ now.pc = "cache_insert"
                   /\ \E content \in {storage'[INDEX_FILE_NAME]} :
                         /\ IndexParses(content)
                         /\ HasEntry(IndexFromSlice(content), call.contract, call.program_id)
                         /\ OnlyObjectWritten(INDEX_FILE_NAME, content)
                   /\ UNCHANGED <<index, cache>>
                \/ /\ call.pc = "cache_insert" /\ now.pc = "done"
                   /\ now.result = OkEntry(call.entry)
                   /\ cache'[call.contract][1] = CacheEntry(call.program_id, call.bytes)
                   /\ UNCHANGED <<storage, index>>
      ]_vars

C15_Witness ==
    \E t, u \in DOMAIN calls :
        /\ calls[t].op = "upload" /\ calls[t].pc = "done"
        /\ calls[t].result.status = "ok" /\ calls[t].alone
        /\ calls[u].op = "upload" /\ calls[u].pc = "done"
        /\ calls[u].result.status = "err"
        /\ HasEntry(index, calls[u].contract, calls[u].program_id)
        /\ index[calls[u].contract][calls[u].program_id].uploaded_at = Now


(* C16.  A construction over a backend whose index.json does not parse as   *)
(* an IndexFile fails: no service is up afterwards, no index is taken (not  *)
(* the empty one, not a rebuilt one), and the backend, index.json included, *)
(* is as it was.                                                           *)
C16_CorruptIndexIsFatal ==
    [][(/\ phase = "down" /\ phase' # "down"
        /\ INDEX_FILE_NAME \in DOMAIN storage
        /\ storage[INDEX_FILE_NAME].kind # "index")
          => /\ phase' = "failed"
             /\ ~Ready'
             /\ UNCHANGED <<storage, index>>
      ]_vars

\* the construction failed over a backend that holds a metadata object a
\* rebuild would have taken
C16_Witness ==
    /\ phase = "failed"
    /\ storage[INDEX_FILE_NAME] = Garbage
    /\ \E k \in DOMAIN storage :
          EndsWith(k, ".json") /\ k # INDEX_FILE_NAME /\ storage[k].kind = "entry"


(* C17.  list_contract returns None exactly when the index has no program   *)
(* of the contract, and otherwise Some of the projections of all the        *)
(* entries of the contract, one per program; the list it returns is never   *)
(* empty.                                                                  *)
C17_ListContract ==
    [][\A t \in DOMAIN calls :
          (calls[t].op = "list_contract" /\ calls[t].pc = "read_index" /\ Stepped(t)) =>
              LET c == calls[t].contract
                  r == calls'[t].result
                  ps == { pr[2] : pr \in { q \in IndexedPairs(index) : q[1] = c } }
              IN  /\ calls'[t].pc = "done" /\ r.status = "ok"
                  /\ r.found <=> ps # {}
                  /\ r.found =>
                        /\ r.listed # {}
                        /\ Cardinality(r.listed) = Cardinality(ps)
                        /\ r.listed =
                              { [program_id |-> p,
                                 size_bytes |-> index[c][p].size_bytes,
                                 uploaded_at |-> index[c][p].uploaded_at,
                                 metadata |-> index[c][p].metadata] : p \in ps }
      ]_vars

\* a listing found nothing after a delete_contract had removed the contract
\* with its two programs
C17_Witness ==
    \E t, u \in DOMAIN calls :
        /\ calls[t].op = "list_contract" /\ calls[t].pc = "done"
        /\ ~calls[t].result.found
        /\ calls[u].op = "delete_contract" /\ calls[u].pc = "done"
        /\ calls[u].result = OkBool(TRUE)
        /\ calls[u].contract = calls[t].contract
        /\ Cardinality(calls[u].entries) = 2


-----------------------------------------------------------------------------
(* Object keys: one caller uploads, again and again, pairs whose contract   *)
(* names and program ids contain the separator of the keys                  *)

\* uploads in one run of the key specification
MaxPathOps == 3

PathU ==
    [tasks |-> {"t1"}, contracts |-> {"c", "c/x"}, programs |-> {"p1", "x/p1"},
     payloads |-> {<<9, 8>>, <<7>>}, toolchains |-> {"v1", "v2"},
     budget |-> MaxPathOps, ticking |-> FALSE]

InitPaths ==
    /\ \E made \in load_or_rebuild_index(EmptyBackend.storage) :
          /\ phase = made.phase
          /\ index = made.index
          /\ storage = made.storage
    /\ cache = EmptyMap
    /\ calls = [t \in PathU.tasks |-> Idle]
    /\ clock = 0
    /\ fresh = {}

NextPaths ==
    \E t \in PathU.tasks :
        \/ UploadStart(t, PathU)
        \/ UploadStoreElf(t)
        \/ UploadStoreMetadata(t)
        \/ UploadUpdateIndex(t)
        \/ UploadWriteIndex(t)
        \/ UploadCacheInsert(t)

SpecPaths == InitPaths /\ [][NextPaths]_vars

(* C18.  The binary key and the metadata key are functions of the pair      *)
(* (contract, program_id) alone, different digests assumed for different    *)
(* program ids: two different pairs share no key, no key is index.json, and *)
(* an upload in flight writes at the keys of its pair whatever its bytes    *)
(* and metadata; so, once the uploads have returned, the backend holds one  *)
(* binary object and one metadata object for each pair uploaded, however    *)
(* many times it was uploaded.                                             *)
C18_KeysDeterministic ==
    LET pairs == PathU.contracts \X PathU.programs
        keys(pr) == {binary_object_path(pr[1], pr[2]), metadata_object_path(pr[1], pr[2])}
    IN  /\ \A a, b \in pairs :
              /\ Cardinality(keys(a)) = 2
              /\ "index.json" \notin keys(a)
              /\ a # b => keys(a) \cap keys(b) = {}
        /\ \A t \in DOMAIN calls :
              calls[t].op = "upload" /\ InFlight(calls[t]) =>
                  /\ calls[t].entry.object_path \in keys(<<calls[t].contract, calls[t].program_id>>)
                  /\ calls[t].entry.metadata_path \in keys(<<calls[t].contract, calls[t].program_id>>)
                  /\ EndsWith(calls[t].entry.object_path, ".elf")
                  /\ EndsWith(calls[t].entry.metadata_path, ".json")
        /\ Quiescent =>
              /\ Cardinality({ k \in DOMAIN storage : EndsWith(k, ".elf") })
                    = Cardinality(IndexedPairs(index))
              /\ Cardinality({ k \in DOMAIN storage : EndsWith(k, ".json") } \ {"index.json"})
                    = Cardinality(IndexedPairs(index))

\* three uploads have returned: two pairs whose names run into each other
\* once joined by the separator, one of them uploaded twice, the second time
\* with other bytes and other metadata
C18_Witness ==
    \E t \in DOMAIN calls :
        /\ Quiescent /\ clock = 3
        /\ calls[t].op = "upload" /\ calls[t].over
        /\ IndexedPairs(index) = {<<"c", "x/p1">>, <<"c/x", "p1">>}


(* C19.  A delete_program or delete_contract whose delete_object fails      *)
(* returns Err, which is neither Ok(true) nor Ok(false), and is over: the   *)
(* failing step changes neither the index, nor index.json or any other      *)
(* object, nor the cache.  No step the call took before (its lookup, the    *)
(* deletes that succeeded) changed the index, index.json or the cache.  So, *)
(* no other mutation of the contract having overlapped the call, the        *)
(* entries it looked up are in the index when it returns, and in index.json *)
(* where index.json held the index.                                        *)
C19_DeleteErrorSurfaced ==
    [][\A t \in DOMAIN calls :
          LET call == calls[t]
              taken == IF call.op = "delete_program" THEN {call.entry} ELSE call.entries
              Kept(idx) == \A e \in taken :
                              /\ HasEntry(idx, e.contract, e.program_id)
                              /\ idx[e.contract][e.program_id] = e
          IN  (call.op \in {"delete_program", "delete_contract"} /\ Stepped(t)) =>
                /\ call.pc \in {"lookup", "delete_elf", "delete_metadata"} =>
                      /\ UNCHANGED <<index, cache>>
                      /\ ObjectExists(storage, INDEX_FILE_NAME) =>
                            /\ ObjectExists(storage', INDEX_FILE_NAME)
                            /\ storage'[INDEX_FILE_NAME] = storage[INDEX_FILE_NAME]
                /\ (/\ call.pc \in {"delete_elf", "delete_metadata"}
                    /\ calls'[t].result.status = "err") =>
                      /\ calls'[t].pc = "done"
                      /\ calls'[t].result = Err
                      /\ calls'[t].result \notin {OkBool(TRUE), OkBool(FALSE)}
                      /\ UNCHANGED <<index, storage, cache>>
                      /\ call.alone => Kept(index')
                      /\ (/\ call.alone
                          /\ ObjectExists(storage, INDEX_FILE_NAME)
                          /\ IndexParses(storage[INDEX_FILE_NAME])
                          /\ IndexFromSlice(storage[INDEX_FILE_NAME]) = index)
                            => Kept(IndexFromSlice(storage'[INDEX_FILE_NAME]))
                /\ (call.pc \in {"delete_elf", "delete_metadata"} /\ calls'[t].pc = "done")
                      => calls'[t].result.status = "err"]_vars

\* a delete_contract that took two entries has returned Err after it deleted
\* the objects of one of them: both entries are in the index and in
\* index.json, one binary object is gone and the other is there
C19_Witness ==
    \E t \in DOMAIN calls :
        /\ calls[t].op = "delete_contract" /\ calls[t].pc = "done"
        /\ calls[t].result = Err /\ calls[t].alone
        /\ Cardinality(calls[t].entries) = 2
        /\ \A e \in calls[t].entries :
              /\ HasEntry(index, e.contract, e.program_id)
              /\ index[e.contract][e.program_id] = e
              /\ HasEntry(IndexFromSlice(storage[INDEX_FILE_NAME]), e.contract, e.program_id)
        /\ \E e \in calls[t].entries : ~ObjectExists(storage, e.object_path)
        /\ \E e \in calls[t].entries : ObjectExists(storage, e.object_path)


\* what a caller finds for a pair in an index: its entry, or nothing
PairState(idx, contract, program_id) ==
    IF HasEntry(idx, contract, program_id)
    THEN {idx[contract][program_id]}
    ELSE {}

\* an entry of the pair with every field set as upload sets it
CompleteEntry(contract, program_id, entry) ==
    /\ entry.contract = contract /\ entry.program_id = program_id
    /\ entry.object_path = binary_object_path(contract, program_id)
    /\ entry.metadata_path = metadata_object_path(contract, program_id)
    /\ entry.size_bytes > 0
    /\ entry.uploaded_at \in 0..Now
    /\ entry.metadata.toolchain # ""

\* the listing holds one ProgramInfo for each program of the bucket, the
\* projection of its entry
ListsBucket(listed, bucket) ==
    /\ Cardinality(listed) = Cardinality(DOMAIN bucket)
    /\ \A p \in DOMAIN bucket : from_entry(bucket[p]) \in listed
    /\ \A info \in listed :
          /\ info.program_id \in DOMAIN bucket
          /\ info = from_entry(bucket[info.program_id])

(* C20.  At every moment, calls in flight or failed, each pair of the index *)
(* has one complete entry.  What the index holds for a pair changes only in *)
(* the index update of one call: an upload of the pair, which puts there    *)
(* the whole entry it built from its own arguments, whether the pair was    *)
(* absent or present; a delete_program of the pair or a delete_contract of  *)
(* its contract, which leaves a pair that was present absent.  list_all and *)
(* list_contract return the projections of the entries the index holds when *)
(* they read it, one for each pair, and the index lookup of download takes  *)
(* the entry the index holds or finds the pair absent.                     *)
C20_NoIntermediateState ==
    [][/\ \A c \in DOMAIN index' : \A p \in DOMAIN index'[c] :
              CompleteEntry(c, p, index'[c][p])
       /\ \A c \in DOMAIN index \cup DOMAIN index' : \A p \in FailU.programs :
              PairState(index', c, p) # PairState(index, c, p) =>
                 \E t \in DOMAIN calls :
                    /\ Stepped(t) /\ calls[t].pc = "update_index"
                    /\ calls[t].contract = c
                    /\ \/ /\ calls[t].op = "upload" /\ calls[t].program_id = p
                          /\ PairState(index', c, p) = {calls[t].entry}
                          /\ calls[t].entry.size_bytes = Len(calls[t].bytes)
                          /\ calls[t].entry.metadata = calls[t].metadata
                       \/ /\ calls[t].op = "delete_program" /\ calls[t].program_id = p
                          /\ PairState(index, c, p) # {} /\ PairState(index', c, p) = {}
                       \/ /\ calls[t].op = "delete_contract"
                          /\ PairState(index, c, p) # {} /\ c \notin DOMAIN index'
       /\ \A t \in DOMAIN calls :
             /\ (calls[t].op = "list_all" /\ calls[t].pc = "read_index" /\ Stepped(t)) =>
                   /\ calls'[t].pc = "done" /\ calls'[t].result.status = "ok"
                   /\ DOMAIN calls'[t].result.listed = DOMAIN index
                   /\ \A c \in DOMAIN index :
                         ListsBucket(calls'[t].result.listed[c], index[c])
             /\ (calls[t].op = "list_contract" /\ calls[t].pc = "read_index" /\ Stepped(t)) =>
                   /\ calls'[t].pc = "done" /\ calls'[t].result.status = "ok"
                   /\ calls[t].contract \in DOMAIN index =>
                         ListsBucket(calls'[t].result.listed, index[calls[t].contract])
             /\ (calls[t].op = "download" /\ calls[t].pc = "index_lookup" /\ Stepped(t)) =>
                   IF HasEntry(index, calls[t].contract, calls[t].program_id)
                   THEN /\ calls'[t].pc = "read_elf"
                        /\ {calls'[t].entry} = PairState(index, calls[t].contract, calls[t].program_id)
                   ELSE calls'[t].pc = "done" /\ calls'[t].result = OkNone]_vars

\* an upload over an existing pair has put its entry in the index and then
\* failed; a list_all of the other caller has returned the projection of that
\* entry, whole, and of the untouched entry of the other pair
C20_Witness ==
    \E t, u \in DOMAIN calls :
        LET c == calls[t].contract
            p == calls[t].program_id
        IN  /\ calls[t].op = "upload" /\ calls[t].pc = "done"
            /\ calls[t].result = Err /\ calls[t].over
            /\ HasEntry(index, c, p)
            /\ index[c][p].metadata = calls[t].metadata
            /\ index[c][p].size_bytes = Len(calls[t].bytes)
            /\ calls[u].op = "list_all" /\ calls[u].pc = "done"
            /\ c \in DOMAIN calls[u].result.listed
            /\ from_entry(index[c][p]) \in calls[u].result.listed[c]
            /\ Cardinality(calls[u].result.listed[c]) = 2


-----------------------------------------------------------------------------
(* Races on one pair: two callers upload it, with bytes of different        *)
(* lengths, and delete it                                                   *)

\* operations started in one run of the race specification
MaxRaceOps == 2

RaceU ==
    [tasks |-> Tasks, contracts |-> {"c1"}, programs |-> {"p1"},
     payloads |-> {<<9, 8>>, <<7>>}, toolchains |-> {"v2"},
     budget |-> MaxRaceOps, ticking |-> FALSE]

InitRace ==
    /\ \E b \in {EmptyBackend, OneProgram} :
          \E made \in load_or_rebuild_index(b.storage) :
             /\ phase = made.phase
             /\ index = made.index
             /\ storage = made.storage
    /\ cache = EmptyMap
    /\ calls = [t \in RaceU.tasks |-> Idle]
    /\ clock = 0
    /\ fresh = {}

NextRace ==
    \E t \in RaceU.tasks :
        \/ UploadStart(t, RaceU)
        \/ UploadStoreElf(t)
        \/ UploadStoreMetadata(t)
        \/ UploadUpdateIndex(t)
        \/ UploadWriteIndex(t)
        \/ UploadCacheInsert(t)
        \/ DeleteProgramStart(t, RaceU)
        \/ DeleteProgramLookup(t)
        \/ DeleteProgramElf(t)
        \/ DeleteProgramMetadata(t)
        \/ DeleteProgramUpdateIndex(t)
        \/ DeleteProgramWriteIndex(t)
        \/ DeleteProgramCacheRemove(t)
        \/ DeleteContractStart(t, RaceU)
        \/ DeleteContractLookup(t)
        \/ DeleteContractElf(t)
        \/ DeleteContractMetadata(t)
        \/ DeleteContractUpdateIndex(t)
        \/ DeleteContractWriteIndex(t)
        \/ DeleteContractCacheRemove(t)

SpecRace == InitRace /\ [][NextRace]_vars

\* the call has applied its index update
Updated(call) ==
    /\ call.op \in Mutations
    /\ call.pc \in {"write_index", "cache_insert", "cache_remove"}
          \/ (call.pc = "done" /\ call.result.status = "ok" /\ call.result.found)

\* the call is a mutation of the pair
MutatesPair(call, contract, program_id) ==
    /\ call.op \in Mutations /\ call.contract = contract
    /\ call.op = "delete_contract" \/ call.program_id = program_id

(* C21.  The index updates of the mutations are applied one at a time: a    *)
(* step in which a mutation applies its update is a step of that call alone *)
(* and leaves in the index what that call determines for its pair, present  *)
(* with the entry of the upload or absent for a delete, whatever another    *)
(* mutation of the same pair that overlaps it has already put there; and no *)
(* other step changes what the index holds.  So the entry that shows once   *)
(* both have returned is that of the update applied last.                   *)
C21_LastUpdateWins ==
    [][/\ \A t \in DOMAIN calls :
             (calls[t].op \in Mutations /\ calls[t].pc = "update_index" /\ Stepped(t)) =>
                /\ \A u \in DOMAIN calls \ {t} : calls'[u] = calls[u]
                /\ calls[t].op = "upload" =>
                      PairState(index', calls[t].contract, calls[t].program_id)
                         = {calls[t].entry}
                /\ calls[t].op = "delete_program" =>
                      PairState(index', calls[t].contract, calls[t].program_id) = {}
                /\ calls[t].op = "delete_contract" =>
                      calls[t].contract \notin DOMAIN index'
       /\ index' # index =>
             \E t \in DOMAIN calls :
                /\ calls[t].op \in Mutations /\ calls[t].pc = "update_index"
                /\ Stepped(t)]_vars


\* an upload has just applied its index update while an overlapping upload of
\* the same pair, with other bytes, had applied its own: the index holds the
\* entry of the one that came last
C21_Witness ==
    \E t, u \in DOMAIN calls :
        /\ t # u
        /\ calls[t].op = "upload" /\ calls[t].pc = "write_index"
        /\ calls[u].op = "upload" /\ Updated(calls[u])
        /\ MutatesPair(calls[u], calls[t].contract, calls[t].program_id)
        /\ calls[u].bytes # calls[t].bytes
        /\ PairState(index, calls[t].contract, calls[t].program_id) = {calls[t].entry}
        /\ calls[t].entry.size_bytes # Len(calls[u].bytes)


-----------------------------------------------------------------------------
(* The index lock.  self.index is a tokio RwLock: index.read().await and    *)
(* index.write().await are await points of their own, and the guard lives   *)
(* to the end of the block that took it.  A call's lock field is the guard  *)
(* it holds.  The steps of the operations are those of the specifications   *)
(* above; the step of a block that reads or updates the index needs the     *)
(* guard, and a guard whose block is over is dropped before the call goes   *)
(* on.                                                                     *)

IndexReaders == { t \in DOMAIN calls : calls[t].lock = "read" }

IndexWriters == { t \in DOMAIN calls : calls[t].lock = "write" }

\* the call is at a block that opens with self.index.read().await
WantsRead(call) ==
    \/ call.op = "download" /\ call.pc = "index_lookup"
    \/ call.op \in {"delete_program", "delete_contract"} /\ call.pc = "lookup"
    \/ call.op \in {"list_all", "list_contract"} /\ call.pc = "read_index"

\* the call is at a block that opens with self.index.write().await
WantsWrite(call) == call.op \in Mutations /\ call.pc = "update_index"

\* the call is at a call of the storage backend
BackendIO(call) ==
    call.pc \in {"store_elf", "store_metadata", "write_index", "read_elf",
                 "delete_elf", "delete_metadata"}

\* a guard that lives until the operation returns
GuardDropped_AtReturn(call) == call.lock # "none" /\ call.pc = "done"

\* the block that took the guard is over: the guard goes out of scope
GuardDropped(call) ==
    \/ call.lock = "read" /\ ~WantsRead(call)
    \/ call.lock = "write" /\ ~WantsWrite(call)

\* self.index.read().await: granted while no writer holds the lock
IndexRead(t) ==
    /\ WantsRead(calls[t]) /\ calls[t].lock = "none"
    /\ IndexWriters = {}
    /\ calls' = [calls EXCEPT ![t].lock = "read"]
    /\ UNCHANGED <<phase, storage, index, cache, clock, fresh>>

\* self.index.write().await: granted while nobody holds the lock
IndexWrite(t) ==
    /\ WantsWrite(calls[t]) /\ calls[t].lock = "none"
    /\ IndexWriters = {} /\ IndexReaders = {}
    /\ calls' = [calls EXCEPT ![t].lock = "write"]
    /\ UNCHANGED <<phase, storage, index, cache, clock, fresh>>

\* the guard is dropped
IndexRelease(t) ==
    /\ GuardDropped(calls[t])
    /\ calls' = [calls EXCEPT ![t].lock = "none"]
    /\ UNCHANGED <<phase, storage, index, cache, clock, fresh>>

\* the call can take its next step: it holds the guard its block needs, and
\* no guard whose block is over
Runs(t) ==
    /\ ~GuardDropped(calls[t])
    /\ WantsRead(calls[t]) => calls[t].lock = "read"
    /\ WantsWrite(calls[t]) => calls[t].lock = "write"

\* operations started in one run of the lock specification
MaxLockOps == 3

LockU ==
    [tasks |-> Tasks, contracts |-> {"c1"}, programs |-> {"p1"},
     payloads |-> {<<9, 8>>}, toolchains |-> {"v2"},
     budget |-> MaxLockOps, ticking |-> FALSE]

InitLock ==
    /\ \E made \in load_or_rebuild_index(OneProgram.storage) :
          /\ phase = made.phase
          /\ index = made.index
          /\ storage = made.storage
    /\ cache = EmptyMap
    /\ calls = [t \in LockU.tasks |-> Idle]
    /\ clock = 0
    /\ fresh = {}

NextLock ==
    \E t \in LockU.tasks :
        \/ IndexRead(t)
        \/ IndexWrite(t)
        \/ IndexRelease(t)
        \/ Runs(t) /\ UploadStart(t, LockU)
        \/ Runs(t) /\ UploadStoreElf(t)
        \/ Runs(t) /\ UploadStoreMetadata(t)
        \/ Runs(t) /\ UploadUpdateIndex(t)
        \/ Runs(t) /\ UploadWriteIndex(t)
        \/ Runs(t) /\ UploadCacheInsert(t)
        \/ Runs(t) /\ DownloadStart(t, LockU)
        \/ Runs(t) /\ DownloadCacheLookup(t)
        \/ Runs(t) /\ DownloadIndexLookup(t)
        \/ Runs(t) /\ DownloadReadElf(t)
        \/ Runs(t) /\ DownloadCacheInsert(t)
        \/ Runs(t) /\ DeleteProgramStart(t, LockU)
        \/ Runs(t) /\ DeleteProgramLookup(t)
        \/ Runs(t) /\ DeleteProgramElf(t)
        \/ Runs(t) /\ DeleteProgramMetadata(t)
        \/ Runs(t) /\ DeleteProgramUpdateIndex(t)
        \/ Runs(t) /\ DeleteProgramWriteIndex(t)
        \/ Runs(t) /\ DeleteProgramCacheRemove(t)
        \/ Runs(t) /\ DeleteContractStart(t, LockU)
        \/ Runs(t) /\ DeleteContractLookup(t)
        \/ Runs(t) /\ DeleteContractElf(t)
        \/ Runs(t) /\ DeleteContractMetadata(t)
        \/ Runs(t) /\ DeleteContractUpdateIndex(t)
        \/ Runs(t) /\ DeleteContractWriteIndex(t)
        \/ Runs(t) /\ DeleteContractCacheRemove(t)
        \/ Runs(t) /\ ListContractStart(t, LockU)
        \/ Runs(t) /\ ListContractRead(t)
        \/ Runs(t) /\ ListAllStart(t, LockU)
        \/ Runs(t) /\ ListAllRead(t)

SpecLock == InitLock /\ [][NextLock]_vars


\* this step is a step of task t
Moves(t) == calls'[t].pc # calls[t].pc \/ calls'[t].lock # calls[t].lock

(* C22.  A call takes no step at a backend read, write or delete while it   *)
(* holds a guard of the index lock, and no step of a call that holds one    *)
(* changes a backend object.  A call that holds the write guard is a        *)
(* mutation at its index update, or past it with the serialized index and   *)
(* about to drop the guard; a call that holds a read guard is a list_all,   *)
(* a list_contract, a download at its index lookup or a delete at its       *)
(* lookup, or past that block and about to drop the guard.  A writer holds  *)
(* the lock alone.                                                         *)
C22_NoBackendIOUnderIndexLock ==
    [][/\ Cardinality(IndexWriters) <= 1
       /\ IndexWriters # {} => IndexReaders = {}
       /\ \A t \in DOMAIN calls :
             /\ calls[t].lock = "write" =>
                   /\ calls[t].op \in Mutations
                   /\ calls[t].pc \in {"update_index", "write_index"}
                   /\ calls[t].pc = "write_index" =>
                         /\ calls[t].index_bytes = IndexToVec(index)
                         /\ Moves(t) => calls'[t] = [calls[t] EXCEPT !.lock = "none"]
             /\ calls[t].lock = "read" =>
                   \/ WantsRead(calls[t])
                   \/ Moves(t) => calls'[t] = [calls[t] EXCEPT !.lock = "none"]
             /\ (Moves(t) /\ calls[t].lock # "none") => storage' = storage
             /\ (Moves(t) /\ Stepped(t) /\ BackendIO(calls[t])) => calls[t].lock = "none"
       /\ storage' # storage =>
             \E t \in DOMAIN calls :
                /\ Moves(t) /\ BackendIO(calls[t]) /\ calls[t].lock = "none"]_vars

\* two calls hold the read guard at once: a list_all and the index lookup of
\* a download
C22_Witness ==
    \E t, u \in DOMAIN calls :
        /\ t # u
        /\ IndexReaders = {t, u} /\ IndexWriters = {}
        /\ calls[t].op = "list_all" /\ calls[t].pc = "read_index"
        /\ calls[u].op = "download" /\ calls[u].pc = "index_lookup"

(* C23.  Whenever no operation is in flight, every operation having         *)
(* returned Ok, a rebuild from the metadata objects of the backend returns   *)
(* the index in memory: the same pairs with the same entries.               *)
C23_IndexIsCacheOfMetadata ==
    (/\ Quiescent
     /\ \A t \in DOMAIN calls : calls[t].pc = "done" => calls[t].result.status = "ok")
        => RebuildIndexes(storage) = {index}


(* C24.  When a construction has rebuilt the index, each entry of the index *)
(* it returns has its metadata object and its binary object in the backend. *)
C24_RebuiltEntriesHaveObjects ==
    [][(phase = "down" /\ phase' = "rebuilt") =>
          \A c \in DOMAIN index' : \A p \in DOMAIN index'[c] :
             /\ ObjectExists(storage', index'[c][p].metadata_path)
             /\ ObjectExists(storage', index'[c][p].object_path)]_vars


(* C25.  A construction that rebuilds leaves index.json in the backend,     *)
(* holding the index it returns, and changes no other object; a             *)
(* construction over the backend it leaves has one outcome: it loads that   *)
(* same index and leaves the backend as it is.  No construction rebuilds    *)
(* over a backend that holds index.json.                                   *)
C25_RebuildPersisted ==
    [][/\ (phase = "down" /\ phase' = "rebuilt") =>
             /\ ~ObjectExists(storage, INDEX_FILE_NAME)
             /\ ObjectExists(storage', INDEX_FILE_NAME)
             /\ IndexParses(storage'[INDEX_FILE_NAME])
             /\ IndexFromSlice(storage'[INDEX_FILE_NAME]) = index'
             /\ \A k \in DOMAIN storage : ObjectExists(storage', k) /\ storage'[k] = storage[k]
             /\ load_or_rebuild_index(storage')
                   = {[phase |-> "loaded", index |-> index', storage |-> storage']}
       /\ (phase = "down" /\ phase' = "loaded") =>
             /\ storage' = storage
             /\ index' = IndexFromSlice(storage[INDEX_FILE_NAME])]_vars

\* a service that has loaded, before any operation, an index naming (c2,p1):
\* no index.json a backend starts with names that pair, so an earlier
\* construction rebuilt it from the metadata objects and wrote it
C25_Witness ==
    /\ phase = "loaded" /\ clock = 0
    /\ HasEntry(index, "c2", "p1")
    /\ IndexFromSlice(storage[INDEX_FILE_NAME]) = index


(* C26.  Two uploads of one pair that have both returned Ok leave the pair  *)
(* in the index with the entry one of them returned, and its binary object   *)
(* with the bytes one of them sent; the two are of the same call when the    *)
(* uploads did not overlap, and need not be when they did (the witness: the  *)
(* entry of one call, the bytes of the other, size_bytes other than the      *)
(* length of the object).                                                  *)
C26_RacingUploadsMayDisagree ==
    \A t, u \in DOMAIN calls :
        LET c == calls[t].contract
            p == calls[t].program_id
            both == {calls[t], calls[u]}
        IN  (/\ t # u
             /\ \A call \in both :
                   /\ call.op = "upload" /\ call.pc = "done"
                   /\ call.result.status = "ok"
                   /\ call.contract = c /\ call.program_id = p) =>
                /\ HasEntry(index, c, p)
                /\ index[c][p] \in { call.result.entry : call \in both }
                /\ ObjectExists(storage, binary_object_path(c, p))
                /\ storage[binary_object_path(c, p)]
                      \in { RawBytes(call.bytes) : call \in both }
                /\ (\A call \in both : call.alone) =>
                      \E call \in both :
                         /\ index[c][p] = call.result.entry
                         /\ storage[binary_object_path(c, p)] = RawBytes(call.bytes)

\* two overlapping uploads of the pair have returned Ok: the index holds the
\* entry of one, the binary object the bytes of the other, and the entry's
\* size_bytes is not the length of the object
C26_Witness ==
    \E t, u \in DOMAIN calls :
        LET c == calls[t].contract
            p == calls[t].program_id
        IN  /\ t # u
            /\ \A call \in {calls[t], calls[u]} :
                  /\ call.op = "upload" /\ call.pc = "done"
                  /\ call.result.status = "ok"
                  /\ call.contract = c /\ call.program_id = p
            /\ HasEntry(index, c, p)
            /\ index[c][p] = calls[t].result.entry
            /\ index[c][p] # calls[u].result.entry
            /\ storage[binary_object_path(c, p)] = RawBytes(calls[u].bytes)
            /\ index[c][p].size_bytes # Len(storage[binary_object_path(c, p)].bytes)


\* the program ids of a cache list, in order
ProgramIds(entries) == [i \in 1..Len(entries) |-> entries[i].program_id]

\* the entries of a cache list, as a set
EntrySet(entries) == { entries[i] : i \in 1..Len(entries) }

(* C27.  The cache lookup of a download, get_and_touch(c,p).  When an entry *)
(* of p is in c's list it returns that entry's bytes and leaves the entry    *)
(* at the front of the list, the list holding the same entries and the       *)
(* others in the order they were in, and the lists of the other contracts    *)
(* as they were.  When there is none it returns nothing, the download goes   *)
(* on to the index, and the cache is as it was: no contract is added.        *)
C27_GetAndTouch ==
    [][\A t \in DOMAIN calls :
          LET c == calls[t].contract
              p == calls[t].program_id
          IN  (calls[t].op = "download" /\ calls[t].pc = "cache_lookup" /\ Stepped(t)) =>
                 IF c \in DOMAIN cache /\ \E i \in 1..Len(cache[c]) : cache[c][i].program_id = p
                 THEN /\ calls'[t].pc = "done"
                      /\ calls'[t].result.status = "ok" /\ calls'[t].result.found
                      /\ DOMAIN cache' = DOMAIN cache
                      /\ \A d \in DOMAIN cache \ {c} : cache'[d] = cache[d]
                      /\ cache'[c][1].program_id = p
                      /\ cache'[c][1].bytes = calls'[t].result.bytes
                      /\ cache'[c][1] \in EntrySet(cache[c])
                      /\ Len(cache'[c]) = Len(cache[c])
                      /\ EntrySet(cache'[c]) = EntrySet(cache[c])
                      /\ SubSeq(cache'[c], 2, Len(cache'[c])) = Retain(cache[c], p)
                 ELSE /\ calls'[t].pc = "index_lookup"
                      /\ calls'[t].result = Pending
                      /\ cache' = cache]_vars

\* the third operation of the run, a download of the program uploaded first,
\* has returned bytes: its entry stood second in the contract's list and is
\* now at the front, before the entry of the program uploaded after it
C27_Witness ==
    \E t \in DOMAIN calls :
        LET c == calls[t].contract
            p == calls[t].program_id
        IN  /\ clock = 3
            /\ calls[t].op = "download" /\ calls[t].pc = "done" /\ calls[t].result.found
            /\ c \in DOMAIN cache /\ Len(cache[c]) = 2
            /\ cache[c][1].program_id = p
            /\ calls[t].result.bytes = cache[c][1].bytes
            /\ HasEntry(index, c, p) /\ HasEntry(index, c, cache[c][2].program_id)
            /\ index[c][p].uploaded_at < index[c][cache[c][2].program_id].uploaded_at


(* C28.  No list of the cache holds two entries of one program id.  A cache *)
(* insert, of an upload or of a download, leaves the entry of its bytes at   *)
(* the front of the contract's list, followed by the other entries the list  *)
(* held, in their order, as far as the bound of 2 goes: the entry dropped is *)
(* the one at the back, the least recently inserted or touched.  With p2     *)
(* before p1 in the list, a download of p1 leaves p1 before p2; with p1      *)
(* before p2, the insert of p3 leaves p3 and p1, and p2 is gone.             *)
C28_LeastRecentlyUsedEvicted ==
    [][/\ \A c \in DOMAIN cache' :
             Cardinality({ cache'[c][i].program_id : i \in 1..Len(cache'[c]) })
                = Len(cache'[c])
       /\ \A t \in DOMAIN calls :
             LET c == calls[t].contract
                 p == calls[t].program_id
                 others == IF c \in DOMAIN cache THEN Retain(cache[c], p) ELSE <<>>
             IN  /\ (calls[t].pc = "cache_insert" /\ Stepped(t)) =>
                       /\ cache'[c][1] = CacheEntry(p, calls[t].bytes)
                       /\ Len(cache'[c]) = IF Len(others) >= 1 THEN 2 ELSE 1
                       /\ Len(others) >= 1 => cache'[c][2] = others[1]
                       /\ (c \in DOMAIN cache /\ ProgramIds(cache[c]) = <<"p1", "p2">>
                              /\ p = "p3")
                             => ProgramIds(cache'[c]) = <<"p3", "p1">>
                 /\ (/\ calls[t].op = "download" /\ calls[t].pc = "cache_lookup"
                     /\ Stepped(t) /\ p = "p1"
                     /\ c \in DOMAIN cache /\ ProgramIds(cache[c]) = <<"p2", "p1">>)
                       => ProgramIds(cache'[c]) = <<"p1", "p2">>]_vars

\* four operations on one contract have returned: p1 uploaded first, p2
\* second, p3 fourth; the list holds p3 then p1, so the third, between them,
\* was the download of p1 that put p1 before p2, and the insert of p3 dropped p2
C28_Witness ==
    \E t \in DOMAIN calls : \E c \in DOMAIN cache :
        /\ clock = 4 /\ Quiescent
        /\ calls[t].op = "upload" /\ calls[t].contract = c /\ calls[t].program_id = "p3"
        /\ DOMAIN index[c] = {"p1", "p2", "p3"}
        /\ index[c]["p1"].uploaded_at = 1
        /\ index[c]["p2"].uploaded_at = 2
        /\ index[c]["p3"].uploaded_at = 4
        /\ ProgramIds(cache[c]) = <<"p3", "p1">>


(* C29.  No contract of the cache has an empty list.  The cache removal of  *)
(* a delete_program leaves the contract's list without the entry of the      *)
(* program, the other entries in their order, and no list at all when that   *)
(* entry was the only one; when the program has no entry it leaves the       *)
(* cache as it was.  The cache removal of a delete_contract leaves no list   *)
(* of the contract.  Neither touches the list of another contract.           *)
C29_NoEmptyCacheList ==
    [][/\ \A c \in DOMAIN cache' : Len(cache'[c]) >= 1
       /\ \A t \in DOMAIN calls :
             LET c == calls[t].contract
                 p == calls[t].program_id
                 cached == /\ c \in DOMAIN cache
                           /\ \E i \in 1..Len(cache[c]) : cache[c][i].program_id = p
             IN  (calls[t].pc = "cache_remove" /\ Stepped(t)) =>
                    /\ \A d \in DOMAIN cache \ {c} : d \in DOMAIN cache' /\ cache'[d] = cache[d]
                    /\ DOMAIN cache' \subseteq DOMAIN cache
                    /\ calls[t].op = "delete_contract" => c \notin DOMAIN cache'
                    /\ (calls[t].op = "delete_program" /\ ~cached) => cache' = cache
                    /\ (calls[t].op = "delete_program" /\ cached) =>
                          IF Len(cache[c]) = 1
                          THEN c \notin DOMAIN cache'
                          ELSE /\ c \in DOMAIN cache'
                               /\ cache'[c] = Retain(cache[c], p)
                               /\ Len(cache'[c]) = Len(cache[c]) - 1]_vars

\* over an empty backend an upload of a pair has returned and then a
\* delete_program of that pair, which nothing overlapped, has returned
\* Ok(true): it found the pair's entry alone in the contract's list, and the
\* cache has no list of the contract
C29_Witness ==
    \E t, u \in DOMAIN calls :
        /\ clock = 2 /\ index = EmptyMap
        /\ calls[t].op = "delete_program" /\ calls[t].pc = "done"
        /\ calls[t].result = OkBool(TRUE) /\ calls[t].alone
        /\ calls[u].op = "upload" /\ calls[u].pc = "done"
        /\ calls[u].contract = calls[t].contract
        /\ calls[u].program_id = calls[t].program_id
        /\ calls[t].contract \notin DOMAIN cache


(* C30.  A download starts at the cache.  When the cache holds an entry of  *)
(* the pair, the lookup returns its bytes and the download is over: it has   *)
(* held no guard of the index lock, taken no step at the backend and changed *)
(* neither the index nor a backend object.  When it holds none, the download *)
(* reads the index under the read guard, then, the pair being indexed, reads *)
(* the binary object holding no guard, then inserts the bytes it read: the   *)
(* pair's entry is at the front of the contract's list and those bytes are   *)
(* returned.  A pair that is not indexed, or whose binary object is not      *)
(* there, ends the download with Ok(None); no step of a download other than  *)
(* a cache hit and the cache insert changes the cache.                       *)
C30_DownloadCacheFirst ==
    [][\A t \in DOMAIN calls :
          LET c == calls[t].contract
              p == calls[t].program_id
              hit == /\ c \in DOMAIN cache
                     /\ \E i \in 1..Len(cache[c]) : cache[c][i].program_id = p
          IN  /\ (calls'[t].op = "download" /\ ~InFlight(calls[t]) /\ Stepped(t)) =>
                    calls'[t].pc = "cache_lookup" /\ calls'[t].lock = "none"
              /\ (calls[t].op = "download" /\ Stepped(t)) =>
                    /\ calls[t].pc = "cache_lookup" =>
                          /\ calls[t].lock = "none" /\ calls'[t].lock = "none"
                          /\ UNCHANGED <<index, storage>>
                          /\ IF hit
                             THEN /\ calls'[t].pc = "done"
                                  /\ \E i \in 1..Len(cache[c]) :
                                        /\ cache[c][i].program_id = p
                                        /\ calls'[t].result = OkSome(cache[c][i].bytes)
                             ELSE /\ calls'[t].pc = "index_lookup"
                                  /\ cache' = cache
                    /\ calls[t].pc = "index_lookup" =>
                          /\ calls[t].lock = "read"
                          /\ UNCHANGED <<index, storage, cache>>
                          /\ IF HasEntry(index, c, p)
                             THEN /\ calls'[t].pc = "read_elf"
                                  /\ calls'[t].entry = index[c][p]
                             ELSE calls'[t].pc = "done" /\ calls'[t].result = OkNone
                    /\ calls[t].pc = "read_elf" =>
                          /\ calls[t].lock = "none"
                          /\ UNCHANGED <<index, storage, cache>>
                          /\ IF ObjectExists(storage, calls[t].entry.object_path)
                             THEN /\ calls'[t].pc = "cache_insert"
                                  /\ RawBytes(calls'[t].bytes)
                                        = storage[calls[t].entry.object_path]
                             ELSE calls'[t].pc = "done" /\ calls'[t].result = OkNone
                    /\ calls[t].pc = "cache_insert" =>
                          /\ calls[t].lock = "none"
                          /\ UNCHANGED <<index, storage>>
                          /\ calls'[t].pc = "done"
                          /\ calls'[t].result = OkSome(calls[t].bytes)
                          /\ cache'[c][1] = CacheEntry(p, calls[t].bytes)
                    /\ (calls'[t].pc = "done" /\ ~calls'[t].result.found) =>
                          cache' = cache]_vars

\* one caller, the other never called: its second operation, a download, has
\* returned the bytes <<9,8>>, which no backend starts with; its first was
\* the upload that cached them, and the download was answered by the cache
C30_Witness ==
    \E t, u \in DOMAIN calls :
        /\ clock = 2 /\ calls[u].op = "none"
        /\ calls[t].op = "download" /\ calls[t].pc = "done"
        /\ calls[t].result = OkSome(<<9, 8>>)
        /\ calls[t].contract \in DOMAIN cache
        /\ cache[calls[t].contract][1] = CacheEntry(calls[t].program_id, <<9, 8>>)


-----------------------------------------------------------------------------
(* The outcomes of the backend calls *)

\* read_object: Ok(Some(data)), Ok(None) when the object is not found, Err
\* when the read fails in any other way (io: what the file system or the
\* bucket answers, "ok" or "fault")
read_object(st, key, io) ==
    IF io = "fault"
    THEN [status |-> "err", found |-> FALSE, bytes |-> <<>>]
    ELSE IF key \in DOMAIN st
         THEN [status |-> "ok", found |-> TRUE, bytes |-> st[key].bytes]
         ELSE [status |-> "ok", found |-> FALSE, bytes |-> <<>>]

(* C31.  The step of a download at its backend read changes neither the    *)
(* index, nor the cache, nor any object, and follows the outcome of          *)
(* read_object: Err ends the download with Err, which is not Ok(None);       *)
(* Ok(None) ends it with Ok(None); Ok(Some(data)) sends it on to the cache   *)
(* insert with the data.  A read that does not fail answers Ok(None) for a   *)
(* missing object, never Err, so the download returns Ok(None) only when the *)
(* object is missing and Err only when the read failed.                      *)
C31_ReadFailureIsError ==
    [][\A t \in DOMAIN calls :
          (calls[t].op = "download" /\ calls[t].pc = "read_elf" /\ Stepped(t)) =>
             LET key == calls[t].entry.object_path
             IN  /\ UNCHANGED <<index, cache, storage>>
                 /\ read_object(storage, key, "ok").status = "ok"
                 /\ read_object(storage, key, "ok").found = ObjectExists(storage, key)
                 /\ \E io \in {"ok", "fault"} :
                       LET read == read_object(storage, key, io)
                       IN  \/ /\ read.status = "err"
                              /\ calls'[t].pc = "done" /\ calls'[t].result = Err
                              /\ calls'[t].result # OkNone
                           \/ /\ read.status = "ok" /\ ~read.found
                              /\ calls'[t].pc = "done" /\ calls'[t].result = OkNone
                           \/ /\ read.status = "ok" /\ read.found
                              /\ calls'[t].pc = "cache_insert"
                              /\ calls'[t].bytes = read.bytes
                 /\ calls'[t].result = OkNone => ~ObjectExists(storage, key)]_vars

\* a download has returned Err: its pair is in the index, the binary object
\* is in the backend, and the cache holds nothing for the contract
C31_Witness ==
    \E t \in DOMAIN calls :
        /\ calls[t].op = "download" /\ calls[t].pc = "done"
        /\ calls[t].result = Err
        /\ HasEntry(index, calls[t].contract, calls[t].program_id)
        /\ ObjectExists(storage, binary_object_path(calls[t].contract, calls[t].program_id))
        /\ calls[t].contract \notin DOMAIN cache


-----------------------------------------------------------------------------
(* The listings as snapshots *)

\* the ProgramInfo of the entry the index holds for (contract, program_id)
InfoOf(idx, contract, program_id) ==
    [program_id |-> program_id,
     size_bytes |-> idx[contract][program_id].size_bytes,
     uploaded_at |-> idx[contract][program_id].uploaded_at,
     metadata |-> idx[contract][program_id].metadata]

\* the listing is the projection of the bucket: one ProgramInfo for each
\* program_id of the bucket and no two for the same program_id
Snapshot(listed, idx, contract) ==
    /\ listed = { InfoOf(idx, contract, p) : p \in DOMAIN idx[contract] }
    /\ \A a, b \in listed : a.program_id = b.program_id => a = b
    /\ { info.program_id : info \in listed } = DOMAIN idx[contract]

(* C32.  No step of a list_all or of a list_contract, its start and its    *)
(* read of the index, changes the index, the cache or an object of the      *)
(* backend.  What the call returns is the projection of the index as it is  *)
(* at the one step that reads it: list_all returns one list for each        *)
(* contract of the index and list_contract the list of its contract, each   *)
(* list holding every program of the contract exactly once, with the size,  *)
(* the time and the metadata of the entry the index holds at that step,     *)
(* whatever other calls have written to the backend and not yet applied to  *)
(* the index.                                                              *)
C32_ListingsAreSnapshots ==
    [][\A t \in DOMAIN calls :
          (calls'[t].op \in {"list_all", "list_contract"} /\ Stepped(t)) =>
             /\ UNCHANGED <<index, cache, storage>>
             /\ calls'[t].pc \in {"read_index", "done"}
             /\ calls'[t].pc = "done" =>
                   /\ calls[t].pc = "read_index" /\ calls[t].op = calls'[t].op
                   /\ calls'[t].result.status = "ok"
             /\ (calls'[t].op = "list_all" /\ calls'[t].pc = "done") =>
                   /\ DOMAIN calls'[t].result.listed = DOMAIN index
                   /\ \A c \in DOMAIN index :
                         Snapshot(calls'[t].result.listed[c], index, c)
             /\ (calls'[t].op = "list_contract" /\ calls'[t].pc = "done") =>
                   IF calls[t].contract \in DOMAIN index
                   THEN /\ calls'[t].result.found
                        /\ Snapshot(calls'[t].result.listed, index, calls[t].contract)
                   ELSE ~calls'[t].result.found /\ calls'[t].result.listed = {}
      ]_vars

\* a list_all has returned the two programs of a contract while a
\* delete_program of one of them had deleted its objects and not yet
\* updated the index
C32_Witness ==
    \E t, u \in DOMAIN calls :
        /\ calls[t].op = "list_all" /\ calls[t].pc = "done"
        /\ calls[u].op = "delete_program" /\ calls[u].pc = "update_index"
        /\ calls[u].contract \in DOMAIN calls[t].result.listed
        /\ Cardinality(calls[t].result.listed[calls[u].contract]) = 2
        /\ calls[u].program_id \in
              { info.program_id : info \in calls[t].result.listed[calls[u].contract] }
        /\ ~ObjectExists(storage, binary_object_path(calls[u].contract, calls[u].program_id))


-----------------------------------------------------------------------------
(* Failed uploads *)

\* every operation started since the construction is an upload that has
\* returned Err: the callers' records hold them all
OnlyFailedUploads ==
    /\ Cardinality({ t \in DOMAIN calls : calls[t].op # "none" }) = clock
    /\ \A t \in DOMAIN calls :
          calls[t].op # "none" =>
             /\ calls[t].op = "upload" /\ calls[t].pc = "done"
             /\ calls[t].result = Err

(* C33.  When the only operations run since the construction are uploads   *)
(* that returned Err, the in-memory index is the index the construction     *)
(* made and the cache is empty as the construction left it: no failed       *)
(* upload shows in the index, so none shows through list_all, list_contract *)
(* or download.                                                            *)
C33_FailedUploadInvisible ==
    (clock > 0 /\ OnlyFailedUploads) =>
        /\ index \in {EmptyBackend.index, TwoPrograms.index}
        /\ cache = EmptyMap


-----------------------------------------------------------------------------
(* The cache lock.  self.cache is a tokio RwLock that every operation takes *)
(* with cache.write().await: in the condition of the `if let` that opens    *)
(* download, where the guard is a temporary of the statement, and in the    *)
(* block that ends each of upload, download, delete_program and             *)
(* delete_contract.  A call's cache_lock field tells that it holds the      *)
(* guard.                                                                  *)

CacheHolders == { t \in DOMAIN calls : calls[t].cache_lock }

\* the call is at a statement that opens with self.cache.write().await
WantsCache(call) ==
    \/ call.op = "download" /\ call.pc \in {"cache_lookup", "cache_insert"}
    \/ call.op = "upload" /\ call.pc = "cache_insert"
    \/ call.op \in {"delete_program", "delete_contract"} /\ call.pc = "cache_remove"

\* a guard of the first statement of download that lives through the
\* index lookup that follows it
CacheGuardDropped_AfterLookup(call) ==
    call.cache_lock /\ ~WantsCache(call) /\ call.pc # "index_lookup"

\* the statement, or the block, that took the guard is over
CacheGuardDropped(call) == call.cache_lock /\ ~WantsCache(call)

\* self.cache.write().await: granted while nobody holds the lock
CacheWrite(t) ==
    /\ WantsCache(calls[t]) /\ ~calls[t].cache_lock
    /\ CacheHolders = {}
    /\ calls' = [calls EXCEPT ![t].cache_lock = TRUE]
    /\ UNCHANGED <<phase, storage, index, cache, clock, fresh>>

\* the guard is dropped
CacheRelease(t) ==
    /\ CacheGuardDropped(calls[t])
    /\ calls' = [calls EXCEPT ![t].cache_lock = FALSE]
    /\ UNCHANGED <<phase, storage, index, cache, clock, fresh>>

\* every guard of the call whose block is over has been dropped: the call
\* goes on to its next statement
Scoped(t) == ~GuardDropped(calls[t]) /\ ~CacheGuardDropped(calls[t])

\* the call can take its next step: it holds the guards its statement needs
\* and no guard whose block is over
Holds(t) ==
    /\ Runs(t)
    /\ Scoped(t)
    /\ WantsCache(calls[t]) => calls[t].cache_lock

\* operations started in one run of the specification of the two locks
MaxGuardOps == 2

GuardU ==
    [tasks |-> Tasks, contracts |-> {"c1"}, programs |-> {"p1"},
     payloads |-> {<<9, 8>>}, toolchains |-> {"v2"},
     budget |-> MaxGuardOps, ticking |-> FALSE]

InitGuard ==
    /\ \E made \in load_or_rebuild_index(OneProgram.storage) :
          /\ phase = made.phase
          /\ index = made.index
          /\ storage = made.storage
    /\ cache = EmptyMap
    /\ calls = [t \in GuardU.tasks |-> Idle]
    /\ clock = 0
    /\ fresh = {}

\* a step of the operation the caller runs, past an await that is not the
\* await of a lock: each backend call returns
Proceeds(t) ==
    \/ UploadStoreElf(t)
    \/ UploadStoreMetadata(t)
    \/ UploadUpdateIndex(t)
    \/ UploadWriteIndex(t)
    \/ UploadCacheInsert(t)
    \/ DownloadCacheLookup(t)
    \/ DownloadIndexLookup(t)
    \/ DownloadReadElf(t)
    \/ DownloadCacheInsert(t)
    \/ DeleteProgramLookup(t)
    \/ DeleteProgramElf(t)
    \/ DeleteProgramMetadata(t)
    \/ DeleteProgramUpdateIndex(t)
    \/ DeleteProgramWriteIndex(t)
    \/ DeleteProgramCacheRemove(t)
    \/ DeleteContractLookup(t)
    \/ DeleteContractElf(t)
    \/ DeleteContractMetadata(t)
    \/ DeleteContractUpdateIndex(t)
    \/ DeleteContractWriteIndex(t)
    \/ DeleteContractCacheRemove(t)
    \/ ListContractRead(t)
    \/ ListAllRead(t)

NextGuard ==
    \E t \in GuardU.tasks :
        \/ Scoped(t) /\ IndexRead(t)
        \/ Scoped(t) /\ IndexWrite(t)
        \/ IndexRelease(t)
        \/ Scoped(t) /\ CacheWrite(t)
        \/ CacheRelease(t)
        \/ Holds(t) /\ UploadStart(t, GuardU)
        \/ Holds(t) /\ UploadStoreElf(t)
        \/ Holds(t) /\ UploadStoreMetadata(t)
        \/ Holds(t) /\ UploadUpdateIndex(t)
        \/ Holds(t) /\ UploadWriteIndex(t)
        \/ Holds(t) /\ UploadCacheInsert(t)
        \/ Holds(t) /\ DownloadStart(t, GuardU)
        \/ Holds(t) /\ DownloadCacheLookup(t)
        \/ Holds(t) /\ DownloadIndexLookup(t)
        \/ Holds(t) /\ DownloadReadElf(t)
        \/ Holds(t) /\ DownloadCacheInsert(t)
        \/ Holds(t) /\ DeleteProgramStart(t, GuardU)
        \/ Holds(t) /\ DeleteProgramLookup(t)
        \/ Holds(t) /\ DeleteProgramElf(t)
        \/ Holds(t) /\ DeleteProgramMetadata(t)
        \/ Holds(t) /\ DeleteProgramUpdateIndex(t)
        \/ Holds(t) /\ DeleteProgramWriteIndex(t)
        \/ Holds(t) /\ DeleteProgramCacheRemove(t)
        \/ Holds(t) /\ DeleteContractStart(t, GuardU)
        \/ Holds(t) /\ DeleteContractLookup(t)
        \/ Holds(t) /\ DeleteContractElf(t)
        \/ Holds(t) /\ DeleteContractMetadata(t)
        \/ Holds(t) /\ DeleteContractUpdateIndex(t)
        \/ Holds(t) /\ DeleteContractWriteIndex(t)
        \/ Holds(t) /\ DeleteContractCacheRemove(t)
        \/ Holds(t) /\ ListContractStart(t, GuardU)
        \/ Holds(t) /\ ListContractRead(t)
        \/ Holds(t) /\ ListAllStart(t, GuardU)
        \/ Holds(t) /\ ListAllRead(t)

SpecGuard == InitGuard /\ [][NextGuard]_vars

\* a lock is granted to the call
Granted(t) ==
    /\ Scoped(t)
    /\ IndexRead(t) \/ IndexWrite(t) \/ CacheWrite(t)

\* the call goes on without waiting for a lock: it drops a guard whose block
\* is over, or takes the next step of its operation
Continues(t) ==
    \/ IndexRelease(t)
    \/ CacheRelease(t)
    \/ Holds(t) /\ Proceeds(t)

\* the scheduler runs every task that can run, and the two locks are
\* granted fairly: a call that asks for a lock that is free again and again
\* gets it
Fairness ==
    \A t \in GuardU.tasks :
        /\ WF_vars(Continues(t))
        /\ SF_vars(Granted(t))

SpecGuardFair == SpecGuard /\ Fairness


\* some call in flight can take a step: be granted a lock, drop a guard, or
\* go on with its operation
Progress ==
    \E t \in GuardU.tasks :
        \/ Scoped(t) /\ IndexRead(t)
        \/ Scoped(t) /\ IndexWrite(t)
        \/ IndexRelease(t)
        \/ Scoped(t) /\ CacheWrite(t)
        \/ CacheRelease(t)
        \/ Holds(t) /\ Proceeds(t)

(* C34.  No call ever holds a guard of the index lock and the guard of the  *)
(* cache lock at once, and a call that waits for one of the two locks holds *)
(* neither.  Whenever some call is in flight, some call in flight can take  *)
(* a step: the calls never block each other for good.  Every backend call   *)
(* returning and the locks being granted fairly, every call that has        *)
(* started returns.                                                        *)
C34_NoDeadlock ==
    /\ [](\A t \in GuardU.tasks :
             /\ ~(calls[t].lock # "none" /\ calls[t].cache_lock)
             /\ ((WantsRead(calls[t]) \/ WantsWrite(calls[t])) /\ calls[t].lock = "none")
                   => ~calls[t].cache_lock \/ CacheGuardDropped(calls[t])
             /\ (WantsCache(calls[t]) /\ ~calls[t].cache_lock)
                   => calls[t].lock = "none" \/ GuardDropped(calls[t]))
    /\ []((\E t \in GuardU.tasks : InFlight(calls[t])) => ENABLED Progress)
    /\ \A t \in GuardU.tasks : InFlight(calls[t]) ~> ~InFlight(calls[t])

\* an upload holds the write guard of the index lock at its index update
\* while a download holds the guard of the cache lock at its cache lookup
C34_Witness ==
    \E t, u \in DOMAIN calls :
        /\ calls[t].op = "upload" /\ calls[t].pc = "update_index"
        /\ calls[t].lock = "write" /\ ~calls[t].cache_lock
        /\ calls[u].op = "download" /\ calls[u].pc = "cache_lookup"
        /\ calls[u].cache_lock /\ calls[u].lock = "none"


-----------------------------------------------------------------------------
(* Objects without an entry *)

\* the keys of the binary and metadata objects of the entries of the index
EntryKeys(idx) ==
    UNION { {idx[pr[1]][pr[2]].object_path, idx[pr[1]][pr[2]].metadata_path} :
               pr \in IndexedPairs(idx) }

(* C35.  Whenever no operation is in flight, none having returned Err,      *)
(* every object of the backend other than index.json is the binary object   *)
(* or the metadata object of an entry of the index; so the objects of the   *)
(* programs a delete_program or a delete_contract removed from the index    *)
(* are gone.                                                               *)
C35_NoOrphanObjects ==
    (/\ Quiescent
     /\ \A t \in DOMAIN calls : calls[t].pc = "done" => calls[t].result.status = "ok")
        => DOMAIN storage \ {INDEX_FILE_NAME} \subseteq EntryKeys(index)


-----------------------------------------------------------------------------
(* The keys of the index and the entries filed under them *)

(* C36.  Every entry the in-memory index holds under contracts[c]           *)
(* .programs[p] names that pair: entry.contract = c and entry.program_id =  *)
(* p, whether an upload inserted it, a rebuild made it from a metadata      *)
(* object (under whatever key that object was stored) or the construction   *)
(* loaded it from the index.json the service wrote.  The entry an upload    *)
(* inserts for (c,p) has object_path = binary_object_path(c,p) and          *)
(* metadata_path = metadata_object_path(c,p).                               *)
C36_EntriesNameTheirKeys ==
    [][/\ \A c \in DOMAIN index' : \A p \in DOMAIN index'[c] :
             /\ index'[c][p].contract = c
             /\ index'[c][p].program_id = p
       /\ \A t \in DOMAIN calls :
             (/\ calls[t].op = "upload" /\ calls[t].pc = "update_index"
              /\ calls'[t].pc = "write_index") =>
                LET c == calls[t].contract
                    p == calls[t].program_id
                IN  /\ HasEntry(index', c, p)
                    /\ index'[c][p].object_path = binary_object_path(c, p)
                    /\ index'[c][p].metadata_path = metadata_object_path(c, p)
                    /\ \A d \in DOMAIN index' : \A q \in DOMAIN index'[d] :
                          <<d, q>> # <<c, p>> =>
                             HasEntry(index, d, q) /\ index'[d][q] = index[d][q]]_vars

\* a construction has rebuilt the index with an entry for (c2,p1) made from
\* a metadata object stored under the key of another pair, and an upload has
\* then put its own entry in the index
C36_Witness ==
    \E t \in DOMAIN calls :
        /\ phase = "rebuilt"
        /\ HasEntry(index, "c2", "p1")
        /\ ~ObjectExists(storage, metadata_object_path("c2", "p1"))
        /\ calls[t].op = "upload" /\ calls[t].pc = "done"
        /\ calls[t].result.status = "ok"
        /\ HasEntry(index, calls[t].contract, calls[t].program_id)
        /\ index[calls[t].contract][calls[t].program_id].uploaded_at = Now


-----------------------------------------------------------------------------
(* Two deletes of one program *)

(* C37.  Of two delete_program calls for the same pair that have returned,  *)
(* no upload of the pair having run, at most one returned Ok(true).         *)
C37_OneDeleteReports ==
    \A t, u \in DOMAIN calls :
        (/\ t # u
         /\ calls[t].op = "delete_program" /\ calls[t].pc = "done"
         /\ calls[u].op = "delete_program" /\ calls[u].pc = "done"
         /\ calls[t].contract = calls[u].contract
         /\ calls[t].program_id = calls[u].program_id
         /\ clock = 2)
            => ~(calls[t].result = OkBool(TRUE) /\ calls[u].result = OkBool(TRUE))


-----------------------------------------------------------------------------
(* The cloud backend, GcsStorageBackend.  The bucket is a map from object   *)
(* names to contents; the backend is configured with an optional key        *)
(* prefix, and each call of the core names an object by its key.            *)

\* str::starts_with
StartsWith(string, prefix) ==
    /\ Len(string) >= Len(prefix)
    /\ SubSeq(string, 1, Len(prefix)) = prefix

\* the string without its first n characters
DropFirst(string, n) ==
    IF n >= Len(string) THEN "" ELSE SubSeq(string, n + 1, Len(string))

\* str::trim_end_matches('/')
RECURSIVE trim_end_matches(_)
trim_end_matches(string) ==
    IF Len(string) > 0 /\ SubSeq(string, Len(string), Len(string)) = "/"
    THEN trim_end_matches(IF Len(string) = 1 THEN ""
                          ELSE SubSeq(string, 1, Len(string) - 1))
    ELSE string

\* Option<String>
NoString == [some |-> FALSE, value |-> ""]

SomeString(string) == [some |-> TRUE, value |-> string]

\* str::strip_prefix
str_strip_prefix(string, prefix) ==
    IF StartsWith(string, prefix)
    THEN SomeString(DropFirst(string, Len(prefix)))
    ELSE NoString

\* GcsStorageBackend::object_path
object_path(prefix, object) ==
    IF prefix.some /\ prefix.value # ""
    THEN trim_end_matches(prefix.value) \o "/" \o object
    ELSE object

\* GcsStorageBackend::strip_prefix
strip_prefix(prefix, object) ==
    IF prefix.some /\ prefix.value # ""
    THEN LET rest == str_strip_prefix(object, trim_end_matches(prefix.value))
             suffix == IF rest.some THEN str_strip_prefix(rest.value, "/") ELSE NoString
         IN  IF suffix.some THEN suffix.value ELSE object
    ELSE object

\* the prefix list_objects(None) sends to the bucket
list_prefix(prefix) ==
    IF prefix.some /\ prefix.value # "" THEN SomeString(prefix.value) ELSE NoString

\* GcsStorageBackend::list_objects(None): the names of the bucket that begin
\* with the list prefix, each through strip_prefix
gcs_list_objects(bucket, prefix) ==
    { strip_prefix(prefix, name) :
        name \in { n \in DOMAIN bucket :
                     list_prefix(prefix).some => StartsWith(n, list_prefix(prefix).value) } }

\* the answer of the bucket to client.delete_object and its effect: an error
\* of the transport or of the service, 404 for a name that is not there, or
\* the object removed
client_delete_object(bucket, name, fault) ==
    IF fault THEN [response |-> "error", bucket |-> bucket]
    ELSE IF name \in DOMAIN bucket
         THEN [response |-> "ok", bucket |-> MapRemove(bucket, name)]
         ELSE [response |-> "not_found", bucket |-> bucket]

\* a backend that takes no answer for a 404
is_not_found_Never(response) == FALSE

\* GcsStorageBackend::is_not_found
is_not_found(response) == response = "not_found"

\* Ok(()) or Err(..) of delete_object, from the answer of the bucket
delete_status(response) ==
    IF response = "ok" THEN "ok"
    ELSE IF is_not_found(response) THEN "ok"
    ELSE "err"

\* backend calls made in one run of the backend specification
MaxGcsOps == 3

\* the configured prefixes
GcsPrefixes ==
    {NoString, SomeString(""), SomeString("a"), SomeString("a/"),
     SomeString("a//"), SomeString("/")}

\* the keys the core names: index.json, a metadata object, and a key that
\* begins like a prefix
GcsKeys == {INDEX_FILE_NAME, metadata_object_path("c1", "p1"), "a/x.json"}

\* the backend before any call, with the prefix it was constructed with
GcsIdle(prefix) ==
    [op |-> "none", pc |-> "idle", prefix |-> prefix, key |-> "",
     response |-> "", status |-> "", existed |-> FALSE, listed |-> {}]

\* the bucket is empty, or holds an object of another user of the bucket
InitGcs ==
    /\ phase = "down"
    /\ storage \in {EmptyMap, [n \in {"ab.json"} |-> Garbage]}
    /\ index = EmptyMap
    /\ cache = EmptyMap
    /\ calls \in { [b \in {"gcs"} |-> GcsIdle(prefix)] : prefix \in GcsPrefixes }
    /\ clock = 0
    /\ fresh = {}

\* GcsStorageBackend::write_object
GcsWriteObject(key) ==
    /\ clock < MaxGcsOps
    /\ storage' = write_object(storage, object_path(calls["gcs"].prefix, key),
                               RawBytes(<<7>>))
    /\ calls' = [calls EXCEPT !["gcs"] =
          [GcsIdle(calls["gcs"].prefix) EXCEPT
              !.op = "write_object", !.pc = "done", !.key = key,
              !.response = "ok", !.status = "ok",
              !.existed = ObjectExists(storage, object_path(calls["gcs"].prefix, key))]]
    /\ clock' = clock + 1
    /\ UNCHANGED <<phase, index, cache, fresh>>

\* GcsStorageBackend::delete_object
GcsDeleteObject(key) ==
    /\ clock < MaxGcsOps
    /\ \E fault \in BOOLEAN :
          LET name == object_path(calls["gcs"].prefix, key)
              answer == client_delete_object(storage, name, fault)
          IN  /\ storage' = answer.bucket
              /\ calls' = [calls EXCEPT !["gcs"] =
                    [GcsIdle(calls["gcs"].prefix) EXCEPT
                        !.op = "delete_object", !.pc = "done", !.key = key,
                        !.response = answer.response,
                        !.status = delete_status(answer.response),
                        !.existed = ObjectExists(storage, name)]]
    /\ clock' = clock + 1
    /\ UNCHANGED <<phase, index, cache, fresh>>

\* GcsStorageBackend::list_objects(None)
GcsListObjects ==
    /\ clock < MaxGcsOps
    /\ calls' = [calls EXCEPT !["gcs"] =
          [GcsIdle(calls["gcs"].prefix) EXCEPT
              !.op = "list_objects", !.pc = "done",
              !.response = "ok", !.status = "ok",
              !.listed = gcs_list_objects(storage, calls["gcs"].prefix)]]
    /\ clock' = clock + 1
    /\ UNCHANGED <<phase, storage, index, cache, fresh>>

NextGcs ==
    \/ \E key \in GcsKeys : GcsWriteObject(key)
    \/ \E key \in GcsKeys : GcsDeleteObject(key)
    \/ GcsListObjects

SpecGcs == InitGcs /\ [][NextGcs]_vars


(* C38.  A delete_object of the cloud backend for a key whose object is not *)
(* in the bucket returns Ok and leaves the bucket as it is, unless the call *)
(* to the bucket fails; a delete_object that returns Ok leaves the bucket   *)
(* without the object and with every other object untouched, and the same   *)
(* delete run again returns Ok too and changes nothing.  An answer of the   *)
(* bucket that is neither success nor 404 is returned as Err, the bucket    *)
(* unchanged.                                                              *)
C38_DeleteIdempotent ==
    [][(calls'["gcs"].op = "delete_object" /\ clock' # clock) =>
          LET call == calls'["gcs"]
              name == object_path(call.prefix, call.key)
              again == client_delete_object(storage', name, FALSE)
          IN  /\ call.response \in {"ok", "not_found", "error"}
              /\ call.response = "ok" =>
                    /\ call.status = "ok" /\ ObjectExists(storage, name)
                    /\ storage' = MapRemove(storage, name)
              /\ call.response = "not_found" =>
                    /\ call.status = "ok" /\ ~ObjectExists(storage, name)
                    /\ storage' = storage
              /\ call.response = "error" =>
                    /\ call.status = "err" /\ storage' = storage
              /\ call.status = "ok" =>
                    /\ ~ObjectExists(storage', name)
                    /\ \A other \in DOMAIN storage \ {name} :
                          ObjectExists(storage', other) /\ storage'[other] = storage[other]
                    /\ delete_status(again.response) = call.status
                    /\ again.bucket = storage'
              /\ (~ObjectExists(storage, name) /\ call.status = "ok") =>
                    storage' = storage]_vars

\* the backend configured with the prefix "a/" has deleted a key whose
\* object was not in the bucket, which holds another object under the
\* prefix: the call returned Ok on the 404 of the bucket
C38_Witness ==
    /\ calls["gcs"].op = "delete_object"
    /\ calls["gcs"].prefix = SomeString("a/")
    /\ calls["gcs"].response = "not_found" /\ calls["gcs"].status = "ok"
    /\ ~calls["gcs"].existed
    /\ ~ObjectExists(storage, object_path(calls["gcs"].prefix, calls["gcs"].key))
    /\ \E key \in GcsKeys \ {calls["gcs"].key} :
          ObjectExists(storage, object_path(calls["gcs"].prefix, key))

(* C39.  For every configured prefix and every key k of the core,           *)
(* strip_prefix(object_path(k)) = k, and list_objects(None) returns k for   *)
(* every object the backend wrote under k.                                 *)
C39_WrittenKeysListed ==
    [][(calls'["gcs"].op = "list_objects" /\ clock' # clock) =>
          \A key \in GcsKeys :
             LET prefix == calls["gcs"].prefix
             IN  /\ strip_prefix(prefix, object_path(prefix, key)) = key
                 /\ ObjectExists(storage, object_path(prefix, key))
                       => key \in calls'["gcs"].listed]_vars


=============================================================================
